---------------------------- MODULE Spec2Model ----------------------------
(***************************************************************************)
(* Model of the requirement-collection core of the nitric CLI:             *)
(*   - codeconfig.Api: the per-API route registry (normalizePath,          *)
(*     matchingWorkers, AddWorker, AddSecurityDefinition, AddSecurity);    *)
(*   - Project.collectServiceRequirements: one collection session;         *)
(*   - Project.CollectServicesRequirements: the fan-out over the services; *)
(*   - Project.BuildServices: image builds bounded by a permit channel.    *)
(* Strings are sequences of one-character strings, so that splitting,      *)
(* lower-casing and joining are computed as the code computes them.        *)
(***************************************************************************)
EXTENDS Integers, Sequences, FiniteSets, TLC

VARIABLES
    \* ---- normalizePath applied to an arbitrary path
    npath,                \* the path handed to normalizePath
    nonce,                \* normalizePath(npath), once computed
    ntwice,               \* normalizePath(nonce), once computed
    npc,                  \* "in" | "once" | "twice"
    \* ---- Project
    services,             \* Project.services, a sequence of service names
    preview,              \* TRUE iff Project.Preview contains sql-databases
    \* ---- one collection session per service (collectServiceRequirements)
    spc,                  \* position of the session of each service
    server,               \* the session's gRPC server:
                          \*   "new" | "spawned" | "serving" | "stopped"
    hasDb,                \* serviceRequirements.HasDatabases()
    envMode,              \* NITRIC_ENVIRONMENT handed to the launched service
    envPort,              \* the port handed to the launched service
    sret,                 \* what collectServiceRequirements returned
    \* ---- CollectServicesRequirements
    mpc,                  \* position of the calling goroutine
    next,                 \* index of the next service of the for loop
    wg,                   \* sync.WaitGroup counter
    gpc,                  \* position of the goroutine of each service
    gtmp,                 \* the slice value read by an append in progress
    reqLock, errorLock,   \* the two mutexes: TRUE while held
    allServiceRequirements,
    serviceErrors,
    cret,                 \* what CollectServicesRequirements returned
    \* ---- one Api of the session of service ApiOwner
    workers,              \* Api.workers
    errors,               \* errors recorded on Api.parent by AddError
    errorLog,             \* the messages AddWorker gave to AddError, in order
    securityDefinitions,  \* Api.securityDefinitions
    security,             \* Api.security
    lock,                 \* Api.lock: TRUE while held
    apc,                  \* position of each registering handler
    aarg,                 \* the worker a handler is registering
    afound,               \* whether the handler's scan found a match
    lastSec,              \* the scopes argument of the last AddSecurity per name
    lastDef,              \* the argument of the last AddSecurityDefinition per name
    overwritten,          \* whether some call replaced an entry by another value
    \* ---- BuildServices
    numCPU,               \* goruntime.NumCPU()
    gomaxprocs,           \* goruntime.GOMAXPROCS(0)
    bpc,                  \* position of the calling goroutine
    bnext,                \* index of the next service of the for loop
    waitGroup,            \* sync.WaitGroup counter
    maxConcurrentBuilds,  \* number of elements in the permit channel
    tpc,                  \* position of the build goroutine of each service
    buildErr,             \* whether BuildImage returned an error, per service
    held,                 \* permits sent and not yet received back, per service
    updates,              \* the updates received from updatesChan, per service,
                          \*   a run of Building updates being kept as one
    clpc,                 \* position of the closing goroutine
    drained,              \* i of the closing goroutine's for loop
    closed,               \* whether updatesChan is closed
    panicked,             \* whether a goroutine sent on the closed channel
    bret,                 \* what BuildServices returned
    receiving,            \* whether the caller still receives from the channel
    \* ---- RunServices and RunServicesWithCommand
    rcmd,                 \* which of the two functions is called
    envArg,               \* the env argument: its entries for the two keys
    rmain,                \* position of the calling goroutine
    rnext,                \* index of the next service of the for loop
    rpc,                  \* position of the group goroutine of each service
    renv,                 \* the environment the service was started with
    rerr,                 \* the error each group goroutine returned
    firstErr,             \* the first error returned to the errgroup
    rret,                 \* what the function returned
    stopSent,             \* number of signals received from the stop channel
    fpc,                  \* position of the goroutine of lo.FanOut
    stopChannels,         \* number of signals buffered in each stop channel
    delivered,            \* number of signals put in each stop channel so far
    \* ---- the stack down command
    confirmDown,          \* the -y flag
    outputCI,             \* output.CI
    dpc,                  \* position of the command
    confirm,              \* the variable the prompt's answer is written to
    derr,                 \* whether err is non-nil
    downCalls,            \* number of calls of the provider's Down
    dexit,                \* the exit code, -1 while the command runs
    \* ---- StringTrunc applied to a string
    trCase,               \* index of the case of TestStringTrunc, 0 for other input
    trS,                  \* the argument s
    trMax,                \* the argument max
    trGot,                \* the result, once computed
    trPc,                 \* "in" | "done"
    \* ---- the stack update command
    envFiles,             \* whether one of the env files exists
    upc,                  \* position of the command
    uconfirm,             \* the variable the prompt's answer is written to
    uerr,                 \* the error in err: "nil", "noStacks" or "other"
    ulog,                 \* the tasks run so far, each with its outcome
    uexit,                \* the exit code, -1 while the command runs
    \* ---- fromProjectConfiguration applied to a configuration
    projectConfig,        \* ProjectConfiguration.Services, with what Glob finds
    cfgRet,               \* what fromProjectConfiguration returned
    cfgPc,                \* "in" | "done"
    \* ---- pathToNormalizedServiceName applied to a path
    servicePath,          \* the argument servicePath
    nameRet,              \* the name returned
    namePc,               \* "in" | "done"
    \* ---- the log writer of each session
    lpc,                  \* position of the log-writing goroutine, per service
    nupd,                 \* number of updates sent on updatesChannel, per service
    exited,               \* whether log.Fatalf has ended the process
    \* ---- BuildBaseImages
    functions,            \* s.Functions: the functions of the project, by key
    finalFunctions,       \* the local map finalFunctions
    visited,              \* the keys the range loop has taken so far
    dockerfiles,          \* the names whose dynamic dockerfile exists
    bbpc,                 \* position of BuildBaseImages
    bbret                 \* the error returned, "nil" for none

normVars == <<npath, nonce, ntwice, npc>>
projVars == <<services, preview>>
sessVars == <<spc, server, hasDb, envMode, envPort, sret>>
collVars == <<mpc, next, wg, gpc, gtmp, reqLock, errorLock,
              allServiceRequirements, serviceErrors, cret>>
apiVars  == <<workers, errors, errorLog, securityDefinitions, security, lock,
              apc, aarg, afound, lastSec, lastDef, overwritten>>
buildVars == <<numCPU, gomaxprocs, bpc, bnext, waitGroup, maxConcurrentBuilds,
               tpc, buildErr, held, updates, clpc, drained, closed,
               panicked, bret, receiving>>
runVars == <<rcmd, envArg, rmain, rnext, rpc, renv, rerr, firstErr, rret, stopSent,
             fpc, stopChannels, delivered>>
downVars == <<confirmDown, outputCI, dpc, confirm, derr, downCalls, dexit>>
truncVars == <<trCase, trS, trMax, trGot, trPc>>
upVars == <<envFiles, upc, uconfirm, uerr, ulog, uexit>>
cfgVars == <<projectConfig, cfgRet, cfgPc>>
nameVars == <<servicePath, nameRet, namePc>>
logVars == <<lpc, nupd, exited>>
baseVars == <<functions, finalFunctions, visited, dockerfiles, bbpc, bbret>>
vars == <<normVars, projVars, sessVars, collVars, apiVars, buildVars, runVars,
          downVars, truncVars, upVars, cfgVars, nameVars, logVars, baseVars>>

None == "none"
Nil  == "nil"

-----------------------------------------------------------------------------
(* Bounds of the model *)

MaxPathLen  == 3     \* length of the arbitrary paths given to normalizePath
MaxAdds     == 3     \* number of AddWorker calls made on the Api
MaxServices == 3     \* number of services of the project
MaxCPU      == 2     \* number of processors, and value of GOMAXPROCS
MaxStops    == 2     \* number of signals sent on the stop channel
MaxTruncLen == 3     \* length of the arbitrary strings given to StringTrunc
MaxFairServices == 2 \* number of services of the project in the fair build
MaxSpecs    == 2     \* number of service patterns of a project configuration
MaxNameLen  == 3     \* length of the paths given to pathToNormalizedServiceName
MaxLogServices == 2  \* number of services whose log writers are followed
MaxUpdates  == 1     \* number of updates a running service sends
MaxFunctions == 2    \* number of functions of the project of BuildBaseImages

-----------------------------------------------------------------------------
(* Strings *)

Sep == "/"

\* the characters of the arbitrary paths
Alphabet == {"/", ":", "u", "U", "{"}

\* strings.ToLower on one character (the upper-case letters the model uses)
ToLowerChar(ch) ==
    CASE ch = "U" -> "u"
      [] ch = "I" -> "i"
      [] OTHER    -> ch

ToLower(s) == [i \in 1..Len(s) |-> ToLowerChar(s[i])]

HasPrefix(s, ch) == Len(s) >= 1 /\ s[1] = ch

RECURSIVE SplitFrom(_, _, _)
\* the segments of path[i..], cur being the segment read so far
SplitFrom(path, i, cur) ==
    IF i > Len(path)
    THEN IF cur = <<>> THEN <<>> ELSE <<cur>>
    ELSE IF path[i] = Sep
         THEN (IF cur = <<>> THEN <<>> ELSE <<cur>>) \o SplitFrom(path, i + 1, <<>>)
         ELSE SplitFrom(path, i + 1, Append(cur, path[i]))

\* utils.SplitPath: the segments between path separators, leading and trailing
\* separators giving no segment
SplitPath(path) == SplitFrom(path, 1, <<>>)

RECURSIVE stringsJoin(_)
\* strings.Join(parts, "/")
stringsJoin(parts) ==
    IF parts = <<>> THEN <<>>
    ELSE IF Len(parts) = 1 THEN parts[1]
    ELSE parts[1] \o <<Sep>> \o stringsJoin(Tail(parts))

ParamToken == <<":", "p", "a", "r", "a", "m">>

\* a plausible slip: the parameter prefix is trimmed instead of the segment
\* being replaced by the canonical token
normalizePathTrim(path) ==
    LET parts == SplitPath(path)
    IN  stringsJoin([i \in 1..Len(parts) |->
                IF HasPrefix(parts[i], ":") THEN Tail(parts[i])
                ELSE ToLower(parts[i])])

\* a plausible slip: a parameter segment keeps its name
normalizePathKeepNames(path) ==
    LET parts == SplitPath(path)
    IN  stringsJoin([i \in 1..Len(parts) |-> ToLower(parts[i])])

normalizePath(path) ==
    LET parts == SplitPath(path)
    IN  stringsJoin([i \in 1..Len(parts) |->
                IF HasPrefix(parts[i], ":") THEN ParamToken
                ELSE ToLower(parts[i])])

-----------------------------------------------------------------------------
(* codeconfig.Api *)

\* the paths and method lists the registering service declares
PathUsersId       == <<"/", "u", "s", "e", "r", "s", "/", ":", "i", "d">>
PathUsersUserId   == <<"/", "u", "s", "e", "r", "s", "/", ":", "u", "s", "e", "r", "I", "d">>
PathUpperUsersId  == <<"/", "U", "s", "e", "r", "s", "/", ":", "i", "d">>
PathUsersBrId     == <<"/", "u", "s", "e", "r", "s", "/", "{", "i", "d", "}">>
PathUsersBrUserId == <<"/", "u", "s", "e", "r", "s", "/", "{", "u", "s", "e", "r", "I", "d", "}">>

Paths == {PathUsersId, PathUsersUserId, PathUpperUsersId, PathUsersBrId,
          PathUsersBrUserId}

MethodLists == {<<"GET">>, <<"POST">>, <<"GET", "POST">>}

\* v1.ApiWorker values
Workers == [path : Paths, methods : MethodLists]

\* the goroutines of the session's server that run registration handlers
Handlers == {"h1", "h2"}

\* the service whose session owns the Api
ApiOwner == 1

SecurityNames == {"jwt", "key"}
\* []string values: the nil slice, the empty slice, a slice of one scope
NilSlice      == [isNil |-> TRUE, elems |-> <<>>]
Slice(elems)  == [isNil |-> FALSE, elems |-> elems]
Scopes        == {NilSlice, Slice(<<>>), Slice(<<"read">>)}
\* *v1.ApiSecurityDefinition values
Definitions   == {Nil, "oidc", "basic"}

\* a plausible slip: only the paths are compared
matchingWorkersPathOnly(a, b) ==
    normalizePath(a.path) = normalizePath(b.path)

matchingWorkers(a, b) ==
    /\ normalizePath(a.path) = normalizePath(b.path)
    /\ \E i \in 1..Len(a.methods) : \E j \in 1..Len(b.methods) :
          a.methods[i] = b.methods[j]

\* a.lock.Lock() returns only when no other goroutine holds the lock
LockIgnored(l) == TRUE

LockFree(l) == ~l

\* FunctionDependencies.AddError: one more error recorded on the parent
AddError(errs) == errs + 1

\* the worker at which the scan of a.workers stops: the first stored worker
\* that matches w
FirstMatch(ws, w) ==
    ws[CHOOSE i \in 1..Len(ws) :
          /\ matchingWorkers(ws[i], w)
          /\ \A j \in 1..(i - 1) : ~matchingWorkers(ws[j], w)]

\* the message AddWorker gives to AddError: the format string alone, no
\* operand is passed for either %v
OverlapError(existing, worker) ==
    [format |-> "overlapping worker %v already registered, can't add new worker %v",
     args |-> <<>>]

\* AddWorker up to the end of its scan of a.workers, called by the launched
\* service through handler h
AddWorkerBegin(h, w) ==
    /\ spc[ApiOwner] = "running"
    /\ server[ApiOwner] = "serving"
    /\ apc[h] = "idle"
    /\ Len(workers) + errors < MaxAdds
    /\ LockFree(lock)
    /\ lock' = TRUE
    /\ aarg' = [aarg EXCEPT ![h] = w]
    /\ afound' = [afound EXCEPT ![h] =
                    \E i \in 1..Len(workers) : matchingWorkers(workers[i], w)]
    /\ apc' = [apc EXCEPT ![h] = "scanned"]
    /\ UNCHANGED <<workers, errors, errorLog, securityDefinitions, security,
                   lastSec, lastDef,
                   overwritten>>
    /\ UNCHANGED <<normVars, projVars, sessVars, collVars, buildVars, runVars,
                   downVars, truncVars, upVars, cfgVars, nameVars, logVars,
                   baseVars>>

\* AddWorker is entered by handler h with worker w: the goroutine is at
\* a.lock.Lock(); in a run of concurrent registrations every handler starts
\* at most one call while fewer calls than handlers were made
AddWorkerCall(h, w) ==
    /\ spc[ApiOwner] = "running"
    /\ server[ApiOwner] = "serving"
    /\ apc[h] = "idle"
    /\ Len(workers) + errors + Cardinality({g \in Handlers : apc[g] # "idle"})
          < Cardinality(Handlers)
    /\ aarg' = [aarg EXCEPT ![h] = w]
    /\ apc' = [apc EXCEPT ![h] = "called"]
    /\ UNCHANGED <<workers, errors, errorLog, securityDefinitions, security, lock,
                   afound, lastSec, lastDef, overwritten>>
    /\ UNCHANGED <<normVars, projVars, sessVars, collVars, buildVars, runVars,
                   downVars, truncVars, upVars, cfgVars, nameVars, logVars,
                   baseVars>>

\* a plausible slip: the scan starts without waiting for the lock
AddWorkerLockNoWait(h) ==
    /\ apc[h] = "called"
    /\ lock' = TRUE
    /\ afound' = [afound EXCEPT ![h] =
                    \E i \in 1..Len(workers) : matchingWorkers(workers[i], aarg[h])]
    /\ apc' = [apc EXCEPT ![h] = "scanned"]
    /\ UNCHANGED <<workers, errors, errorLog, securityDefinitions, security, aarg,
                   lastSec, lastDef, overwritten>>
    /\ UNCHANGED <<normVars, projVars, sessVars, collVars, buildVars, runVars,
                   downVars, truncVars, upVars, cfgVars, nameVars, logVars,
                   baseVars>>

\* a.lock.Lock() returns to handler h, which scans a.workers
AddWorkerLock(h) ==
    /\ apc[h] = "called"
    /\ LockFree(lock)
    /\ lock' = TRUE
    /\ afound' = [afound EXCEPT ![h] =
                    \E i \in 1..Len(workers) : matchingWorkers(workers[i], aarg[h])]
    /\ apc' = [apc EXCEPT ![h] = "scanned"]
    /\ UNCHANGED <<workers, errors, errorLog, securityDefinitions, security, aarg,
                   lastSec, lastDef, overwritten>>
    /\ UNCHANGED <<normVars, projVars, sessVars, collVars, buildVars, runVars,
                   downVars, truncVars, upVars, cfgVars, nameVars, logVars,
                   baseVars>>

\* a plausible slip: the worker is appended also when a match was found
AddWorkerEndAlways(h) ==
    /\ apc[h] = "scanned"
    /\ errors' = IF afound[h] THEN AddError(errors) ELSE errors
    /\ workers' = Append(workers, aarg[h])
    /\ errorLog' = IF afound[h]
                   THEN Append(errorLog,
                               OverlapError(FirstMatch(workers, aarg[h]), aarg[h]))
                   ELSE errorLog
    /\ lock' = FALSE
    /\ apc' = [apc EXCEPT ![h] = "idle"]
    /\ aarg' = [aarg EXCEPT ![h] = Nil]
    /\ afound' = [afound EXCEPT ![h] = FALSE]
    /\ UNCHANGED <<securityDefinitions, security, lastSec, lastDef, overwritten>>
    /\ UNCHANGED <<normVars, projVars, sessVars, collVars, buildVars, runVars,
                   downVars, truncVars, upVars, cfgVars, nameVars, logVars,
                   baseVars>>

\* a plausible slip: the match replaces the stored workers by the new one
AddWorkerEndReplace(h) ==
    /\ apc[h] = "scanned"
    /\ IF afound[h]
       THEN /\ errors' = AddError(errors)
            /\ workers' = <<aarg[h]>>
       ELSE /\ workers' = Append(workers, aarg[h])
            /\ UNCHANGED errors
    /\ errorLog' = IF afound[h]
                   THEN Append(errorLog,
                               OverlapError(FirstMatch(workers, aarg[h]), aarg[h]))
                   ELSE errorLog
    /\ lock' = FALSE
    /\ apc' = [apc EXCEPT ![h] = "idle"]
    /\ aarg' = [aarg EXCEPT ![h] = Nil]
    /\ afound' = [afound EXCEPT ![h] = FALSE]
    /\ UNCHANGED <<securityDefinitions, security, lastSec, lastDef, overwritten>>
    /\ UNCHANGED <<normVars, projVars, sessVars, collVars, buildVars, runVars,
                   downVars, truncVars, upVars, cfgVars, nameVars, logVars,
                   baseVars>>

\* a plausible slip: an accepted worker is placed before the stored ones
AddWorkerEndPrepend(h) ==
    /\ apc[h] = "scanned"
    /\ IF afound[h]
       THEN /\ errors' = AddError(errors)
            /\ UNCHANGED workers
       ELSE /\ workers' = <<aarg[h]>> \o workers
            /\ UNCHANGED errors
    /\ errorLog' = IF afound[h]
                   THEN Append(errorLog,
                               OverlapError(FirstMatch(workers, aarg[h]), aarg[h]))
                   ELSE errorLog
    /\ lock' = FALSE
    /\ apc' = [apc EXCEPT ![h] = "idle"]
    /\ aarg' = [aarg EXCEPT ![h] = Nil]
    /\ afound' = [afound EXCEPT ![h] = FALSE]
    /\ UNCHANGED <<securityDefinitions, security, lastSec, lastDef, overwritten>>
    /\ UNCHANGED <<normVars, projVars, sessVars, collVars, buildVars, runVars,
                   downVars, truncVars, upVars, cfgVars, nameVars, logVars,
                   baseVars>>

\* AddWorker from the outcome of its scan to its return
AddWorkerEnd(h) ==
    /\ apc[h] = "scanned"
    /\ IF afound[h]
       THEN /\ errors' = AddError(errors)
            /\ UNCHANGED workers
       ELSE /\ workers' = Append(workers, aarg[h])
            /\ UNCHANGED errors
    /\ errorLog' = IF afound[h]
                   THEN Append(errorLog,
                               OverlapError(FirstMatch(workers, aarg[h]), aarg[h]))
                   ELSE errorLog
    /\ lock' = FALSE
    /\ apc' = [apc EXCEPT ![h] = "idle"]
    /\ aarg' = [aarg EXCEPT ![h] = Nil]
    /\ afound' = [afound EXCEPT ![h] = FALSE]
    /\ UNCHANGED <<securityDefinitions, security, lastSec, lastDef, overwritten>>
    /\ UNCHANGED <<normVars, projVars, sessVars, collVars, buildVars, runVars,
                   downVars, truncVars, upVars, cfgVars, nameVars, logVars,
                   baseVars>>

\* m[name] = v of a Go map
MapSet(m, name, v) ==
    [n \in DOMAIN m \cup {name} |-> IF n = name THEN v ELSE m[n]]

\* a plausible slip: an existing definition is kept
AddSecurityDefinitionFirstWins(h, name, sd) ==
    /\ spc[ApiOwner] = "running"
    /\ server[ApiOwner] = "serving"
    /\ apc[h] = "idle"
    /\ LockFree(lock)
    /\ securityDefinitions' = IF name \in DOMAIN securityDefinitions
                              THEN securityDefinitions
                              ELSE MapSet(securityDefinitions, name, sd)
    /\ lastDef' = MapSet(lastDef, name, sd)
    /\ overwritten' = (overwritten \/ (name \in DOMAIN lastDef /\ lastDef[name] # sd))
    /\ UNCHANGED <<workers, errors, errorLog, security, lock,
                   apc, aarg, afound, lastSec>>
    /\ UNCHANGED <<normVars, projVars, sessVars, collVars, buildVars, runVars,
                   downVars, truncVars, upVars, cfgVars, nameVars, logVars,
                   baseVars>>

\* a plausible slip: a definition also registers an empty requirement under
\* its name
AddSecurityDefinitionAddsRequirement(h, name, sd) ==
    /\ spc[ApiOwner] = "running"
    /\ server[ApiOwner] = "serving"
    /\ apc[h] = "idle"
    /\ LockFree(lock)
    /\ securityDefinitions' = MapSet(securityDefinitions, name, sd)
    /\ security' = MapSet(security, name, Slice(<<>>))
    /\ lastDef' = MapSet(lastDef, name, sd)
    /\ overwritten' = (overwritten \/ (name \in DOMAIN lastDef /\ lastDef[name] # sd))
    /\ UNCHANGED <<workers, errors, errorLog, lock, apc, aarg, afound, lastSec>>
    /\ UNCHANGED <<normVars, projVars, sessVars, collVars, buildVars, runVars,
                   downVars, truncVars, upVars, cfgVars, nameVars, logVars,
                   baseVars>>

AddSecurityDefinition(h, name, sd) ==
    /\ spc[ApiOwner] = "running"
    /\ server[ApiOwner] = "serving"
    /\ apc[h] = "idle"
    /\ LockFree(lock)
    /\ securityDefinitions' = MapSet(securityDefinitions, name, sd)
    /\ lastDef' = MapSet(lastDef, name, sd)
    /\ overwritten' = (overwritten \/ (name \in DOMAIN lastDef /\ lastDef[name] # sd))
    /\ UNCHANGED <<workers, errors, errorLog, security, lock,
                   apc, aarg, afound, lastSec>>
    /\ UNCHANGED <<normVars, projVars, sessVars, collVars, buildVars, runVars,
                   downVars, truncVars, upVars, cfgVars, nameVars, logVars,
                   baseVars>>

\* a plausible slip: nil scopes are stored as they come
AddSecurityNoDefault(h, name, scopes) ==
    /\ spc[ApiOwner] = "running"
    /\ server[ApiOwner] = "serving"
    /\ apc[h] = "idle"
    /\ LockFree(lock)
    /\ security' = MapSet(security, name, scopes)
    /\ lastSec' = MapSet(lastSec, name, scopes)
    /\ overwritten' = (overwritten \/ (name \in DOMAIN lastSec /\ lastSec[name] # scopes))
    /\ UNCHANGED <<workers, errors, errorLog, securityDefinitions, lock,
                   apc, aarg, afound, lastDef>>
    /\ UNCHANGED <<normVars, projVars, sessVars, collVars, buildVars, runVars,
                   downVars, truncVars, upVars, cfgVars, nameVars, logVars,
                   baseVars>>

AddSecurity(h, name, scopes) ==
    /\ spc[ApiOwner] = "running"
    /\ server[ApiOwner] = "serving"
    /\ apc[h] = "idle"
    /\ LockFree(lock)
    /\ security' = IF ~scopes.isNil
                   THEN MapSet(security, name, scopes)
                   ELSE MapSet(security, name, Slice(<<>>))
    /\ lastSec' = MapSet(lastSec, name, scopes)
    /\ overwritten' = (overwritten \/ (name \in DOMAIN lastSec /\ lastSec[name] # scopes))
    /\ UNCHANGED <<workers, errors, errorLog, securityDefinitions, lock,
                   apc, aarg, afound, lastDef>>
    /\ UNCHANGED <<normVars, projVars, sessVars, collVars, buildVars, runVars,
                   downVars, truncVars, upVars, cfgVars, nameVars, logVars,
                   baseVars>>

\* newApi
ApiInit ==
    /\ workers = <<>>
    /\ errors = 0
    /\ errorLog = <<>>
    /\ securityDefinitions = <<>>
    /\ security = <<>>
    /\ lock = FALSE
    /\ apc = [h \in Handlers |-> "idle"]
    /\ aarg = [h \in Handlers |-> Nil]
    /\ afound = [h \in Handlers |-> FALSE]
    /\ lastSec = <<>>
    /\ lastDef = <<>>
    /\ overwritten = FALSE


-----------------------------------------------------------------------------
(* Project.collectServiceRequirements: the session of one service *)

ServiceNames == 1..MaxServices

\* the services of the project, as a set
ServiceSet == {services[i] : i \in 1..Len(services)}

\* Service.Name and Service.GetFilePath(): two different strings, the name
\* being derived from the path of the file
ServiceName(s) == [field |-> "Name", svc |-> s]
GetFilePath(s) == [field |-> "filepath", svc |-> s]

\* a plausible slip: the message is formatted from the name and the file path
ErrArgsNameAndFile(s, kind) ==
    IF kind = "preview" THEN <<ServiceName(s), GetFilePath(s)>> ELSE <<>>

\* the values an error's message is formatted from: fmt.Errorf is handed the
\* file path alone for the preview-feature error, and no value of the service
\* for the errors net.Listen, net.SplitHostPort and RunContainer return
ErrArgs(s, kind) ==
    IF kind = "preview" THEN <<GetFilePath(s)>> ELSE <<>>

\* error values: the failing service, the statement that failed, the values
\* formatted into the message and, for the error errors.Join builds, the
\* errors it wraps; NilErr is the nil error
Err(s, kind) == [svc |-> s, kind |-> kind, args |-> ErrArgs(s, kind),
                 joined |-> <<>>]
NilErr       == [svc |-> 0, kind |-> Nil, args |-> <<>>, joined |-> <<>>]

\* *collector.ServiceRequirements values; NilReqs is the nil pointer
Reqs(s, db) == [svc |-> s, hasDb |-> db]
NilReqs     == [svc |-> 0, hasDb |-> FALSE]

\* ports: the port the OS gave the listener of the session of s, and no port
ListenerPort(s) == [owner |-> "listener", svc |-> s]
NoPort          == [owner |-> None, svc |-> 0]

\* return values of collectServiceRequirements
RetOk(s, db)    == [reqs |-> Reqs(s, db), err |-> NilErr]
RetErr(s, kind) == [reqs |-> NilReqs, err |-> Err(s, kind)]

\* NewServiceRequirements, grpc.NewServer, the Register calls and net.Listen
SessionListen(s, ok) ==
    /\ gpc[s] = "call"
    /\ spc[s] = "idle"
    /\ IF ok
       THEN /\ spc' = [spc EXCEPT ![s] = "listening"]
            /\ UNCHANGED sret
       ELSE /\ spc' = [spc EXCEPT ![s] = "returned"]
            /\ sret' = [sret EXCEPT ![s] = RetErr(s, "listen")]
    /\ UNCHANGED <<server, hasDb, envMode, envPort>>
    /\ UNCHANGED <<normVars, projVars, collVars, apiVars, buildVars, runVars,
                   downVars, truncVars, upVars, cfgVars, nameVars, logVars,
                   baseVars>>

\* the goroutine of the go statement runs grpcServer.Serve(listener): the
\* server serves, unless Stop() was called first, when Serve returns at once
ServeStart(s) ==
    /\ server[s] = "spawned"
    /\ server' = [server EXCEPT ![s] = "serving"]
    /\ UNCHANGED <<spc, hasDb, envMode, envPort, sret>>
    /\ UNCHANGED <<normVars, projVars, collVars, apiVars, buildVars, runVars,
                   downVars, truncVars, upVars, cfgVars, nameVars, logVars,
                   baseVars>>

\* a plausible slip: Stop() is deferred after the net.SplitHostPort check
SessionServeStopNotDeferred(s, ok) ==
    /\ spc[s] = "listening"
    /\ IF ok
       THEN /\ spc' = [spc EXCEPT ![s] = "ready"]
            /\ server' = [server EXCEPT ![s] = "spawned"]
            /\ UNCHANGED sret
       ELSE /\ spc' = [spc EXCEPT ![s] = "returned"]
            /\ server' = [server EXCEPT ![s] = "spawned"]
            /\ sret' = [sret EXCEPT ![s] = RetErr(s, "port")]
    /\ lpc' = [lpc EXCEPT ![s] = "mkdir"]
    /\ UNCHANGED <<hasDb, envMode, envPort, nupd, exited>>
    /\ UNCHANGED <<normVars, projVars, collVars, apiVars, buildVars, runVars,
                   downVars, truncVars, upVars, cfgVars, nameVars, baseVars>>

\* the go statement of grpcServer.Serve(listener); defer grpcServer.Stop();
\* the go statement of the log writer; net.SplitHostPort
SessionServe(s, ok) ==
    /\ spc[s] = "listening"
    /\ IF ok
       THEN /\ spc' = [spc EXCEPT ![s] = "ready"]
            /\ server' = [server EXCEPT ![s] = "spawned"]
            /\ UNCHANGED sret
       ELSE /\ spc' = [spc EXCEPT ![s] = "returned"]
            /\ server' = [server EXCEPT ![s] = "stopped"]
            /\ sret' = [sret EXCEPT ![s] = RetErr(s, "port")]
    /\ lpc' = [lpc EXCEPT ![s] = "mkdir"]
    /\ UNCHANGED <<hasDb, envMode, envPort, nupd, exited>>
    /\ UNCHANGED <<normVars, projVars, collVars, apiVars, buildVars, runVars,
                   downVars, truncVars, upVars, cfgVars, nameVars, baseVars>>

\* a plausible slip: the service is launched with the mode of a local run
SessionLaunchRunMode(s) ==
    /\ spc[s] = "ready"
    /\ spc' = [spc EXCEPT ![s] = "running"]
    /\ envMode' = [envMode EXCEPT ![s] = "run"]
    /\ envPort' = [envPort EXCEPT ![s] = ListenerPort(s)]
    /\ UNCHANGED <<server, hasDb, sret>>
    /\ UNCHANGED <<normVars, projVars, collVars, apiVars, buildVars, runVars,
                   downVars, truncVars, upVars, cfgVars, nameVars, logVars,
                   baseVars>>

\* a plausible slip: the service is launched before the listener is bound
SessionLaunchBeforeListen(s) ==
    /\ gpc[s] = "call"
    /\ spc[s] = "idle"
    /\ spc' = [spc EXCEPT ![s] = "running"]
    /\ envMode' = [envMode EXCEPT ![s] = "build"]
    /\ envPort' = [envPort EXCEPT ![s] = ListenerPort(s)]
    /\ UNCHANGED <<server, hasDb, sret>>
    /\ UNCHANGED <<normVars, projVars, collVars, apiVars, buildVars, runVars,
                   downVars, truncVars, upVars, cfgVars, nameVars, logVars,
                   baseVars>>

\* service.RunContainer is called: the service runs, targeting the server
SessionLaunch(s) ==
    /\ spc[s] = "ready"
    /\ spc' = [spc EXCEPT ![s] = "running"]
    /\ envMode' = [envMode EXCEPT ![s] = "build"]
    /\ envPort' = [envPort EXCEPT ![s] = ListenerPort(s)]
    /\ UNCHANGED <<server, hasDb, sret>>
    /\ UNCHANGED <<normVars, projVars, collVars, apiVars, buildVars, runVars,
                   downVars, truncVars, upVars, cfgVars, nameVars, logVars,
                   baseVars>>

\* a plausible slip: the collector is a process-wide singleton
DeclareSqlShared(s) ==
    /\ spc[s] = "running"
    /\ server[s] = "serving"
    /\ ~hasDb[s]
    /\ hasDb' = [t \in ServiceNames |-> TRUE]
    /\ UNCHANGED <<spc, server, envMode, envPort, sret>>
    /\ UNCHANGED <<normVars, projVars, collVars, apiVars, buildVars, runVars,
                   downVars, truncVars, upVars, cfgVars, nameVars, logVars,
                   baseVars>>

\* the running service declares a SQL database on the session's server
DeclareSql(s) ==
    /\ spc[s] = "running"
    /\ server[s] = "serving"
    /\ ~hasDb[s]
    /\ hasDb' = [hasDb EXCEPT ![s] = TRUE]
    /\ UNCHANGED <<spc, server, envMode, envPort, sret>>
    /\ UNCHANGED <<normVars, projVars, collVars, apiVars, buildVars, runVars,
                   downVars, truncVars, upVars, cfgVars, nameVars, logVars,
                   baseVars>>

\* a plausible slip: a service that registered nothing is taken to have failed
SessionReturnRejectsEmpty(s, runOk) ==
    /\ spc[s] = "running"
    /\ spc' = [spc EXCEPT ![s] = "returned"]
    /\ server' = [server EXCEPT ![s] = "stopped"]
    /\ sret' = [sret EXCEPT ![s] =
                  IF ~runOk THEN RetErr(s, "run")
                  ELSE IF ~hasDb[s] THEN RetErr(s, "empty")
                  ELSE IF ~preview THEN RetErr(s, "preview")
                  ELSE RetOk(s, hasDb[s])]
    /\ UNCHANGED <<hasDb, envMode, envPort>>
    /\ UNCHANGED <<normVars, projVars, collVars, apiVars, buildVars, runVars,
                   downVars, truncVars, upVars, cfgVars, nameVars, logVars,
                   baseVars>>

\* a plausible slip: a failing session cancels the sessions of its siblings
SessionReturnCancelsSiblings(s, runOk) ==
    LET ret == IF ~runOk THEN RetErr(s, "run")
               ELSE IF hasDb[s] /\ ~preview THEN RetErr(s, "preview")
               ELSE RetOk(s, hasDb[s])
        hit(t) == t = s \/ (ret.err # NilErr /\ spc[t] \in {"ready", "running"})
    IN  /\ spc[s] = "running"
        /\ spc' = [t \in ServiceNames |-> IF hit(t) THEN "returned" ELSE spc[t]]
        /\ server' = [t \in ServiceNames |-> IF hit(t) THEN "stopped" ELSE server[t]]
        /\ sret' = [t \in ServiceNames |->
                      IF t = s THEN ret
                      ELSE IF hit(t) THEN RetErr(t, "run") ELSE sret[t]]
        /\ UNCHANGED <<hasDb, envMode, envPort>>
        /\ UNCHANGED <<normVars, projVars, collVars, apiVars, buildVars,
                       runVars, downVars, truncVars, upVars, cfgVars, nameVars,
                       logVars, baseVars>>

\* a plausible slip: the preview-feature check comes before the check of the
\* error RunContainer returned
SessionReturnChecksFirst(s, runOk) ==
    /\ spc[s] = "running"
    /\ spc' = [spc EXCEPT ![s] = "returned"]
    /\ server' = [server EXCEPT ![s] = "stopped"]
    /\ sret' = [sret EXCEPT ![s] =
                  IF hasDb[s] /\ ~preview THEN RetErr(s, "preview")
                  ELSE IF ~runOk THEN RetErr(s, "run")
                  ELSE RetOk(s, hasDb[s])]
    /\ UNCHANGED <<hasDb, envMode, envPort>>
    /\ UNCHANGED <<normVars, projVars, collVars, apiVars, buildVars, runVars,
                   downVars, truncVars, upVars, cfgVars, nameVars, logVars,
                   baseVars>>

\* RunContainer returns; the preview-feature check; the return, on which the
\* deferred grpcServer.Stop() runs
SessionReturn(s, runOk) ==
    /\ spc[s] = "running"
    /\ spc' = [spc EXCEPT ![s] = "returned"]
    /\ server' = [server EXCEPT ![s] = "stopped"]
    /\ sret' = [sret EXCEPT ![s] =
                  IF ~runOk THEN RetErr(s, "run")
                  ELSE IF hasDb[s] /\ ~preview THEN RetErr(s, "preview")
                  ELSE RetOk(s, hasDb[s])]
    /\ UNCHANGED <<hasDb, envMode, envPort>>
    /\ UNCHANGED <<normVars, projVars, collVars, apiVars, buildVars, runVars,
                   downVars, truncVars, upVars, cfgVars, nameVars, logVars,
                   baseVars>>

\* log.Fatalf: the message is printed and os.Exit(1) ends the process
Fatalf(s) ==
    /\ lpc' = [lpc EXCEPT ![s] = "fatal"]
    /\ exited' = TRUE

\* the log writer: os.MkdirAll of the collect directory
LogMkdirAll(s, ok) ==
    /\ ~exited
    /\ lpc[s] = "mkdir"
    /\ IF ok
       THEN lpc' = [lpc EXCEPT ![s] = "tempfile"] /\ UNCHANGED exited
       ELSE Fatalf(s)
    /\ UNCHANGED nupd
    /\ UNCHANGED <<normVars, projVars, sessVars, collVars, apiVars, buildVars,
                   runVars, downVars, truncVars, upVars, cfgVars, nameVars,
                   baseVars>>

\* the log writer: afero.TempFile; defer logFile.Close(); the first receive
\* of the range loop is reached
LogTempFile(s, ok) ==
    /\ ~exited
    /\ lpc[s] = "tempfile"
    /\ IF ok
       THEN lpc' = [lpc EXCEPT ![s] = "recv"] /\ UNCHANGED exited
       ELSE Fatalf(s)
    /\ UNCHANGED nupd
    /\ UNCHANGED <<normVars, projVars, sessVars, collVars, apiVars, buildVars,
                   runVars, downVars, truncVars, upVars, cfgVars, nameVars,
                   baseVars>>

\* the running service sends an update on the unbuffered updatesChannel and
\* the log writer receives it
RunUpdate(s, withErr) ==
    /\ ~exited
    /\ spc[s] = "running"
    /\ lpc[s] = "recv"
    /\ nupd[s] < MaxUpdates
    /\ nupd' = [nupd EXCEPT ![s] = @ + 1]
    /\ lpc' = [lpc EXCEPT ![s] = IF withErr THEN "messageErr" ELSE "message"]
    /\ UNCHANGED exited
    /\ UNCHANGED <<normVars, projVars, sessVars, collVars, apiVars, buildVars,
                   runVars, downVars, truncVars, upVars, cfgVars, nameVars,
                   baseVars>>

\* the log writer: logFile.WriteString(update.Message)
LogWriteMessage(s, ok) ==
    /\ ~exited
    /\ lpc[s] \in {"message", "messageErr"}
    /\ IF ok
       THEN /\ lpc' = [lpc EXCEPT ![s] =
                         IF lpc[s] = "messageErr" THEN "error" ELSE "recv"]
            /\ UNCHANGED exited
       ELSE Fatalf(s)
    /\ UNCHANGED nupd
    /\ UNCHANGED <<normVars, projVars, sessVars, collVars, apiVars, buildVars,
                   runVars, downVars, truncVars, upVars, cfgVars, nameVars,
                   baseVars>>

\* the log writer: logFile.WriteString(update.Err.Error()); the next receive
LogWriteError(s, ok) ==
    /\ ~exited
    /\ lpc[s] = "error"
    /\ IF ok
       THEN lpc' = [lpc EXCEPT ![s] = "recv"] /\ UNCHANGED exited
       ELSE Fatalf(s)
    /\ UNCHANGED nupd
    /\ UNCHANGED <<normVars, projVars, sessVars, collVars, apiVars, buildVars,
                   runVars, downVars, truncVars, upVars, cfgVars, nameVars,
                   baseVars>>

SessInit ==
    /\ spc = [s \in ServiceNames |-> "idle"]
    /\ server = [s \in ServiceNames |-> "new"]
    /\ hasDb = [s \in ServiceNames |-> FALSE]
    /\ envMode = [s \in ServiceNames |-> None]
    /\ envPort = [s \in ServiceNames |-> NoPort]
    /\ sret = [s \in ServiceNames |-> [reqs |-> NilReqs, err |-> NilErr]]

LogInit ==
    /\ lpc = [s \in ServiceNames |-> "none"]
    /\ nupd = [s \in ServiceNames |-> 0]
    /\ exited = FALSE

-----------------------------------------------------------------------------
(* Project.CollectServicesRequirements *)

\* errors.Join: nil when every error is nil, else one error wrapping the
\* non-nil errors in order
errorsJoin(errs) ==
    LET nonNil == SelectSeq(errs, LAMBDA e : e # NilErr)
    IN  IF nonNil = <<>> THEN NilErr
        ELSE [svc |-> 0, kind |-> "join", args |-> <<>>, joined |-> nonNil]

\* one iteration of the for loop: wg.Add(1) and the go statement
Spawn ==
    /\ mpc = "loop"
    /\ next <= Len(services)
    /\ wg' = wg + 1
    /\ gpc' = [gpc EXCEPT ![services[next]] = "call"]
    /\ next' = next + 1
    /\ UNCHANGED <<mpc, gtmp, reqLock, errorLock, allServiceRequirements,
                   serviceErrors, cret>>
    /\ UNCHANGED <<normVars, projVars, sessVars, apiVars, buildVars, runVars,
                   downVars, truncVars, upVars, cfgVars, nameVars, logVars,
                   baseVars>>

\* the session returned no error: reqLock.Lock(), and append reads the slice
GoLockReq(s) ==
    /\ gpc[s] = "call"
    /\ spc[s] = "returned"
    /\ sret[s].err = NilErr
    /\ LockFree(reqLock)
    /\ reqLock' = TRUE
    /\ gtmp' = [gtmp EXCEPT ![s] = allServiceRequirements]
    /\ gpc' = [gpc EXCEPT ![s] = "appendReq"]
    /\ UNCHANGED <<mpc, next, wg, errorLock, allServiceRequirements,
                   serviceErrors, cret>>
    /\ UNCHANGED <<normVars, projVars, sessVars, apiVars, buildVars, runVars,
                   downVars, truncVars, upVars, cfgVars, nameVars, logVars,
                   baseVars>>

\* the slice is assigned; the deferred reqLock.Unlock() and wg.Done() run
GoAppendReq(s) ==
    /\ gpc[s] = "appendReq"
    /\ allServiceRequirements' = Append(gtmp[s], sret[s].reqs)
    /\ reqLock' = FALSE
    /\ wg' = wg - 1
    /\ gpc' = [gpc EXCEPT ![s] = "done"]
    /\ UNCHANGED <<mpc, next, gtmp, errorLock, serviceErrors, cret>>
    /\ UNCHANGED <<normVars, projVars, sessVars, apiVars, buildVars, runVars,
                   downVars, truncVars, upVars, cfgVars, nameVars, logVars,
                   baseVars>>

\* a plausible slip: the error is appended without errorLock held
GoLockErrUnlocked(s) ==
    /\ gpc[s] = "call"
    /\ spc[s] = "returned"
    /\ sret[s].err # NilErr
    /\ errorLock' = TRUE
    /\ gtmp' = [gtmp EXCEPT ![s] = serviceErrors]
    /\ gpc' = [gpc EXCEPT ![s] = "appendErr"]
    /\ UNCHANGED <<mpc, next, wg, reqLock, allServiceRequirements,
                   serviceErrors, cret>>
    /\ UNCHANGED <<normVars, projVars, sessVars, apiVars, buildVars, runVars,
                   downVars, truncVars, upVars, cfgVars, nameVars, logVars,
                   baseVars>>

\* the session returned an error: errorLock.Lock(), and append reads the slice
GoLockErr(s) ==
    /\ gpc[s] = "call"
    /\ spc[s] = "returned"
    /\ sret[s].err # NilErr
    /\ LockFree(errorLock)
    /\ errorLock' = TRUE
    /\ gtmp' = [gtmp EXCEPT ![s] = serviceErrors]
    /\ gpc' = [gpc EXCEPT ![s] = "appendErr"]
    /\ UNCHANGED <<mpc, next, wg, reqLock, allServiceRequirements,
                   serviceErrors, cret>>
    /\ UNCHANGED <<normVars, projVars, sessVars, apiVars, buildVars, runVars,
                   downVars, truncVars, upVars, cfgVars, nameVars, logVars,
                   baseVars>>

\* the slice is assigned; the deferred errorLock.Unlock() and wg.Done() run
GoAppendErr(s) ==
    /\ gpc[s] = "appendErr"
    /\ serviceErrors' = Append(gtmp[s], sret[s].err)
    /\ errorLock' = FALSE
    /\ wg' = wg - 1
    /\ gpc' = [gpc EXCEPT ![s] = "done"]
    /\ UNCHANGED <<mpc, next, gtmp, reqLock, allServiceRequirements, cret>>
    /\ UNCHANGED <<normVars, projVars, sessVars, apiVars, buildVars, runVars,
                   downVars, truncVars, upVars, cfgVars, nameVars, logVars,
                   baseVars>>

\* a plausible slip: the requirements collected so far are returned with the error
CollectReturnPartial ==
    /\ mpc = "loop"
    /\ next > Len(services)
    /\ wg = 0
    /\ cret' = IF Len(serviceErrors) > 0
               THEN [reqs |-> Slice(allServiceRequirements), err |-> errorsJoin(serviceErrors)]
               ELSE [reqs |-> Slice(allServiceRequirements), err |-> NilErr]
    /\ mpc' = "returned"
    /\ UNCHANGED <<next, wg, gpc, gtmp, reqLock, errorLock,
                   allServiceRequirements, serviceErrors>>
    /\ UNCHANGED <<normVars, projVars, sessVars, apiVars, buildVars, runVars,
                   downVars, truncVars, upVars, cfgVars, nameVars, logVars,
                   baseVars>>

\* a plausible slip: the result is built without waiting for the goroutines
CollectReturnNoWait ==
    /\ mpc = "loop"
    /\ next > Len(services)
    /\ cret' = IF Len(serviceErrors) > 0
               THEN [reqs |-> NilSlice, err |-> errorsJoin(serviceErrors)]
               ELSE [reqs |-> Slice(allServiceRequirements), err |-> NilErr]
    /\ mpc' = "returned"
    /\ UNCHANGED <<next, wg, gpc, gtmp, reqLock, errorLock,
                   allServiceRequirements, serviceErrors>>
    /\ UNCHANGED <<normVars, projVars, sessVars, apiVars, buildVars, runVars,
                   downVars, truncVars, upVars, cfgVars, nameVars, logVars,
                   baseVars>>

\* a plausible slip: a project without services is an error, as it is for
\* BuildServices
CollectReturnRejectsEmpty ==
    /\ mpc = "loop"
    /\ next > Len(services)
    /\ wg = 0
    /\ cret' = IF Len(services) = 0
               THEN [reqs |-> NilSlice, err |-> Err(0, "empty")]
               ELSE IF Len(serviceErrors) > 0
               THEN [reqs |-> NilSlice, err |-> errorsJoin(serviceErrors)]
               ELSE [reqs |-> Slice(allServiceRequirements), err |-> NilErr]
    /\ mpc' = "returned"
    /\ UNCHANGED <<next, wg, gpc, gtmp, reqLock, errorLock,
                   allServiceRequirements, serviceErrors>>
    /\ UNCHANGED <<normVars, projVars, sessVars, apiVars, buildVars, runVars,
                   downVars, truncVars, upVars, cfgVars, nameVars, logVars,
                   baseVars>>

\* the loop is over; wg.Wait() returns; the result is built and returned
CollectReturn ==
    /\ mpc = "loop"
    /\ next > Len(services)
    /\ wg = 0
    /\ cret' = IF Len(serviceErrors) > 0
               THEN [reqs |-> NilSlice, err |-> errorsJoin(serviceErrors)]
               ELSE [reqs |-> Slice(allServiceRequirements), err |-> NilErr]
    /\ mpc' = "returned"
    /\ UNCHANGED <<next, wg, gpc, gtmp, reqLock, errorLock,
                   allServiceRequirements, serviceErrors>>
    /\ UNCHANGED <<normVars, projVars, sessVars, apiVars, buildVars, runVars,
                   downVars, truncVars, upVars, cfgVars, nameVars, logVars,
                   baseVars>>

\* CollectServicesRequirements is not called
CollIdle ==
    /\ mpc = "idle"
    /\ next = 1
    /\ wg = 0
    /\ gpc = [s \in ServiceNames |-> "none"]
    /\ gtmp = [s \in ServiceNames |-> <<>>]
    /\ reqLock = FALSE
    /\ errorLock = FALSE
    /\ allServiceRequirements = <<>>
    /\ serviceErrors = <<>>
    /\ cret = [reqs |-> NilSlice, err |-> NilErr]

CollInit ==
    /\ mpc = "loop"
    /\ next = 1
    /\ wg = 0
    /\ gpc = [s \in ServiceNames |-> "none"]
    /\ gtmp = [s \in ServiceNames |-> <<>>]
    /\ reqLock = FALSE
    /\ errorLock = FALSE
    /\ allServiceRequirements = <<>>
    /\ serviceErrors = <<>>
    /\ cret = [reqs |-> NilSlice, err |-> NilErr]

-----------------------------------------------------------------------------
(* Project.BuildServices *)

\* the builtin min
min(a, b) == IF a < b THEN a ELSE b

\* cap(maxConcurrentBuilds)
capMaxConcurrentBuilds == min(numCPU, gomaxprocs)

\* the error BuildImage returns for s
BuildImageErr(s) == Err(s, "build")

\* ServiceBuildUpdate values: the Error update carries BuildImage's error
ServiceBuildUpdate(s, status) ==
    [ServiceName |-> s, Status |-> status,
     Err |-> IF status = "Error" THEN BuildImageErr(s) ELSE NilErr]

\* the terminal statuses
Terminal == {"Complete", "Error"}

\* a send on updatesChan, which is unbuffered: the receiver takes the update
\* from the sender, which waits while nothing receives; a send on the closed
\* channel panics
Send(s, status) ==
    IF closed
    THEN /\ panicked' = TRUE
         /\ UNCHANGED updates
    ELSE /\ receiving
         /\ updates' = [updates EXCEPT ![s] =
                          IF status = "Building" /\ @ # <<>>
                          THEN @
                          ELSE Append(@, ServiceBuildUpdate(s, status))]
         /\ UNCHANGED panicked

\* a plausible slip: the check of the service list is missing
BuildStartAcceptsEmpty ==
    /\ bpc = "start"
    /\ bpc' = "loop"
    /\ UNCHANGED bret
    /\ UNCHANGED <<receiving, numCPU, gomaxprocs, bnext, waitGroup, maxConcurrentBuilds,
                   tpc, buildErr, held, updates, clpc, drained,
                   closed, panicked>>
    /\ UNCHANGED <<normVars, projVars, sessVars, collVars, apiVars, runVars,
                   downVars, truncVars, upVars, cfgVars, nameVars, logVars,
                   baseVars>>

\* make(chan ServiceBuildUpdate); the project has no services: the error is
\* returned; else the permit channel and the wait group are made
BuildStart ==
    /\ bpc = "start"
    /\ IF Len(services) = 0
       THEN /\ bpc' = "returned"
            /\ bret' = "error"
       ELSE /\ bpc' = "loop"
            /\ UNCHANGED bret
    /\ UNCHANGED <<receiving, numCPU, gomaxprocs, bnext, waitGroup, maxConcurrentBuilds,
                   tpc, buildErr, held, updates, clpc, drained,
                   closed, panicked>>
    /\ UNCHANGED <<normVars, projVars, sessVars, collVars, apiVars, runVars,
                   downVars, truncVars, upVars, cfgVars, nameVars, logVars,
                   baseVars>>

\* one iteration of the for loop: waitGroup.Add(1), the writer is made and
\* the go statement
BuildSpawn ==
    /\ bpc = "loop"
    /\ bnext <= Len(services)
    /\ waitGroup' = waitGroup + 1
    /\ tpc' = [tpc EXCEPT ![services[bnext]] = "acquire"]
    /\ bnext' = bnext + 1
    /\ UNCHANGED <<receiving, numCPU, gomaxprocs, bpc, maxConcurrentBuilds, buildErr,
                   held, updates, clpc, drained, closed, panicked,
                   bret>>
    /\ UNCHANGED <<normVars, projVars, sessVars, collVars, apiVars, runVars,
                   downVars, truncVars, upVars, cfgVars, nameVars, logVars,
                   baseVars>>

\* the loop is over: the go statement of the closing goroutine, and the
\* channel is returned
BuildReturn ==
    /\ bpc = "loop"
    /\ bnext > Len(services)
    /\ clpc' = "wait"
    /\ bpc' = "returned"
    /\ bret' = "updatesChan"
    /\ UNCHANGED <<receiving, numCPU, gomaxprocs, bnext, waitGroup, maxConcurrentBuilds,
                   tpc, buildErr, held, updates, drained, closed,
                   panicked>>
    /\ UNCHANGED <<normVars, projVars, sessVars, collVars, apiVars, runVars,
                   downVars, truncVars, upVars, cfgVars, nameVars, logVars,
                   baseVars>>

\* a plausible slip: the build starts without a permit being awaited
TaskAcquireUnbounded(s) ==
    /\ tpc[s] = "acquire"
    /\ maxConcurrentBuilds' = maxConcurrentBuilds + 1
    /\ held' = [held EXCEPT ![s] = @ + 1]
    /\ tpc' = [tpc EXCEPT ![s] = "building"]
    /\ UNCHANGED <<receiving, numCPU, gomaxprocs, bpc, bnext, waitGroup, buildErr,
                   updates, clpc, drained, closed, panicked, bret>>
    /\ UNCHANGED <<normVars, projVars, sessVars, collVars, apiVars, runVars,
                   downVars, truncVars, upVars, cfgVars, nameVars, logVars,
                   baseVars>>

\* maxConcurrentBuilds <- struct{}{}: blocks while the channel is full
TaskAcquire(s) ==
    /\ tpc[s] = "acquire"
    /\ maxConcurrentBuilds < capMaxConcurrentBuilds
    /\ maxConcurrentBuilds' = maxConcurrentBuilds + 1
    /\ held' = [held EXCEPT ![s] = @ + 1]
    /\ tpc' = [tpc EXCEPT ![s] = "building"]
    /\ UNCHANGED <<receiving, numCPU, gomaxprocs, bpc, bnext, waitGroup, buildErr,
                   updates, clpc, drained, closed, panicked, bret>>
    /\ UNCHANGED <<normVars, projVars, sessVars, collVars, apiVars, runVars,
                   downVars, truncVars, upVars, cfgVars, nameVars, logVars,
                   baseVars>>

\* BuildImage writes to the service's writer, which sends an update
TaskProgress(s) ==
    /\ tpc[s] = "building"
    /\ Send(s, "Building")
    /\ UNCHANGED <<receiving, numCPU, gomaxprocs, bpc, bnext, waitGroup,
                   maxConcurrentBuilds, tpc, buildErr, held, clpc, drained,
                   closed, bret>>
    /\ UNCHANGED <<normVars, projVars, sessVars, collVars, apiVars, runVars,
                   downVars, truncVars, upVars, cfgVars, nameVars, logVars,
                   baseVars>>

\* svc.BuildImage returns, with an error or without
TaskBuildEnd(s, ok) ==
    /\ tpc[s] = "building"
    /\ buildErr' = [buildErr EXCEPT ![s] = ~ok]
    /\ tpc' = [tpc EXCEPT ![s] = "send"]
    /\ UNCHANGED <<receiving, numCPU, gomaxprocs, bpc, bnext, waitGroup,
                   maxConcurrentBuilds, held, updates, clpc,
                   drained, closed, panicked, bret>>
    /\ UNCHANGED <<normVars, projVars, sessVars, collVars, apiVars, runVars,
                   downVars, truncVars, upVars, cfgVars, nameVars, logVars,
                   baseVars>>

\* a plausible slip: only a failed build is reported
TaskSendSkipsComplete(s) ==
    /\ tpc[s] = "send"
    /\ IF buildErr[s] THEN Send(s, "Error") ELSE UNCHANGED <<updates, panicked>>
    /\ tpc' = [tpc EXCEPT ![s] = "release"]
    /\ UNCHANGED <<receiving, numCPU, gomaxprocs, bpc, bnext, waitGroup,
                   maxConcurrentBuilds, buildErr, held, clpc,
                   drained, closed, bret>>
    /\ UNCHANGED <<normVars, projVars, sessVars, collVars, apiVars, runVars,
                   downVars, truncVars, upVars, cfgVars, nameVars, logVars,
                   baseVars>>

\* a plausible slip: the channel is buffered, the send does not wait for the
\* receiver
TaskSendBuffered(s) ==
    /\ tpc[s] = "send"
    /\ IF receiving \/ closed
       THEN Send(s, IF buildErr[s] THEN "Error" ELSE "Complete")
       ELSE UNCHANGED <<updates, panicked>>
    /\ tpc' = [tpc EXCEPT ![s] = "release"]
    /\ UNCHANGED <<receiving, numCPU, gomaxprocs, bpc, bnext, waitGroup,
                   maxConcurrentBuilds, buildErr, held, clpc,
                   drained, closed, bret>>
    /\ UNCHANGED <<normVars, projVars, sessVars, collVars, apiVars, runVars,
                   downVars, truncVars, upVars, cfgVars, nameVars, logVars,
                   baseVars>>

\* updatesChan <- ServiceBuildUpdate{...}: the Error or the Complete update
TaskSend(s) ==
    /\ tpc[s] = "send"
    /\ Send(s, IF buildErr[s] THEN "Error" ELSE "Complete")
    /\ tpc' = [tpc EXCEPT ![s] = "release"]
    /\ UNCHANGED <<receiving, numCPU, gomaxprocs, bpc, bnext, waitGroup,
                   maxConcurrentBuilds, buildErr, held, clpc,
                   drained, closed, bret>>
    /\ UNCHANGED <<normVars, projVars, sessVars, collVars, apiVars, runVars,
                   downVars, truncVars, upVars, cfgVars, nameVars, logVars,
                   baseVars>>

\* a plausible slip: the permit is given back only after a successful build
TaskReleaseOnSuccess(s) ==
    /\ tpc[s] = "release"
    /\ maxConcurrentBuilds > 0
    /\ maxConcurrentBuilds' = IF buildErr[s] THEN maxConcurrentBuilds
                              ELSE maxConcurrentBuilds - 1
    /\ held' = [held EXCEPT ![s] = IF buildErr[s] THEN @ ELSE @ - 1]
    /\ tpc' = [tpc EXCEPT ![s] = "wgDone"]
    /\ UNCHANGED <<receiving, numCPU, gomaxprocs, bpc, bnext, waitGroup, buildErr,
                   updates, clpc, drained, closed, panicked, bret>>
    /\ UNCHANGED <<normVars, projVars, sessVars, collVars, apiVars, runVars,
                   downVars, truncVars, upVars, cfgVars, nameVars, logVars,
                   baseVars>>

\* <-maxConcurrentBuilds: blocks while the channel is empty
TaskRelease(s) ==
    /\ tpc[s] = "release"
    /\ maxConcurrentBuilds > 0
    /\ maxConcurrentBuilds' = maxConcurrentBuilds - 1
    /\ held' = [held EXCEPT ![s] = @ - 1]
    /\ tpc' = [tpc EXCEPT ![s] = "wgDone"]
    /\ UNCHANGED <<receiving, numCPU, gomaxprocs, bpc, bnext, waitGroup, buildErr,
                   updates, clpc, drained, closed, panicked, bret>>
    /\ UNCHANGED <<normVars, projVars, sessVars, collVars, apiVars, runVars,
                   downVars, truncVars, upVars, cfgVars, nameVars, logVars,
                   baseVars>>

\* waitGroup.Done(), and the goroutine ends
TaskDone(s) ==
    /\ tpc[s] = "wgDone"
    /\ waitGroup' = waitGroup - 1
    /\ tpc' = [tpc EXCEPT ![s] = "done"]
    /\ UNCHANGED <<receiving, numCPU, gomaxprocs, bpc, bnext, maxConcurrentBuilds,
                   buildErr, held, updates, clpc, drained, closed,
                   panicked, bret>>
    /\ UNCHANGED <<normVars, projVars, sessVars, collVars, apiVars, runVars,
                   downVars, truncVars, upVars, cfgVars, nameVars, logVars,
                   baseVars>>

\* a plausible slip: the closing goroutine does not wait for the wait group
CloserWaitNoWait ==
    /\ clpc = "wait"
    /\ clpc' = "drain"
    /\ drained' = 0
    /\ UNCHANGED <<receiving, numCPU, gomaxprocs, bpc, bnext, waitGroup,
                   maxConcurrentBuilds, tpc, buildErr, held,
                   updates, closed, panicked, bret>>
    /\ UNCHANGED <<normVars, projVars, sessVars, collVars, apiVars, runVars,
                   downVars, truncVars, upVars, cfgVars, nameVars, logVars,
                   baseVars>>

\* waitGroup.Wait() returns
CloserWait ==
    /\ clpc = "wait"
    /\ waitGroup = 0
    /\ clpc' = "drain"
    /\ drained' = 0
    /\ UNCHANGED <<receiving, numCPU, gomaxprocs, bpc, bnext, waitGroup,
                   maxConcurrentBuilds, tpc, buildErr, held,
                   updates, closed, panicked, bret>>
    /\ UNCHANGED <<normVars, projVars, sessVars, collVars, apiVars, runVars,
                   downVars, truncVars, upVars, cfgVars, nameVars, logVars,
                   baseVars>>

\* one iteration of the for loop: maxConcurrentBuilds <- struct{}{}
CloserDrain ==
    /\ clpc = "drain"
    /\ drained < capMaxConcurrentBuilds
    /\ maxConcurrentBuilds < capMaxConcurrentBuilds
    /\ maxConcurrentBuilds' = maxConcurrentBuilds + 1
    /\ drained' = drained + 1
    /\ UNCHANGED <<receiving, numCPU, gomaxprocs, bpc, bnext, waitGroup, tpc, buildErr,
                   held, updates, clpc, closed, panicked, bret>>
    /\ UNCHANGED <<normVars, projVars, sessVars, collVars, apiVars, runVars,
                   downVars, truncVars, upVars, cfgVars, nameVars, logVars,
                   baseVars>>

\* the for loop is over: close(updatesChan)
CloserClose ==
    /\ clpc = "drain"
    /\ drained >= capMaxConcurrentBuilds
    /\ closed' = TRUE
    /\ clpc' = "done"
    /\ UNCHANGED <<receiving, numCPU, gomaxprocs, bpc, bnext, waitGroup,
                   maxConcurrentBuilds, tpc, buildErr, held,
                   updates, drained, panicked, bret>>
    /\ UNCHANGED <<normVars, projVars, sessVars, collVars, apiVars, runVars,
                   downVars, truncVars, upVars, cfgVars, nameVars, logVars,
                   baseVars>>

\* the caller of BuildServices stops receiving from the channel
ConsumerStop ==
    /\ bret = "updatesChan"
    /\ receiving
    /\ ~closed
    /\ receiving' = FALSE
    /\ UNCHANGED <<numCPU, gomaxprocs, bpc, bnext, waitGroup,
                   maxConcurrentBuilds, tpc, buildErr, held, updates, clpc,
                   drained, closed, panicked, bret>>
    /\ UNCHANGED <<normVars, projVars, sessVars, collVars, apiVars, runVars,
                   downVars, truncVars, upVars, cfgVars, nameVars, logVars,
                   baseVars>>

BuildIdle ==
    /\ bpc = "start"
    /\ bnext = 1
    /\ waitGroup = 0
    /\ maxConcurrentBuilds = 0
    /\ tpc = [s \in ServiceNames |-> "none"]
    /\ buildErr = [s \in ServiceNames |-> FALSE]
    /\ held = [s \in ServiceNames |-> 0]
    /\ updates = [s \in ServiceNames |-> <<>>]
    /\ clpc = "none"
    /\ drained = 0
    /\ closed = FALSE
    /\ panicked = FALSE
    /\ bret = "none"
    /\ receiving = TRUE

BuildInit ==
    /\ numCPU = 1
    /\ gomaxprocs = 1
    /\ BuildIdle

-----------------------------------------------------------------------------
(* Project.RunServices and Project.RunServicesWithCommand *)

\* the capacity lo.FanOut is asked to give each stop channel
StopChannelCap == 1

\* the port localCloud.AddService returns for s
LocalCloudPort(s) == [owner |-> "localCloud", svc |-> s]

\* the environment of a service that was not started
NoEnv == [mode |-> None, port |-> NoPort]

\* an address the env argument names
EnvPort == [owner |-> "env", svc |-> 0]

\* the env arguments: for each of NITRIC_ENVIRONMENT and SERVICE_ADDRESS, the
\* value of the entry, None and NoPort standing for no entry
EnvArgs ==
    {[NITRIC_ENVIRONMENT |-> m, SERVICE_ADDRESS |-> a] :
        m \in {None, "test"}, a \in {NoPort, EnvPort}}
NoEnvArg == [NITRIC_ENVIRONMENT |-> None, SERVICE_ADDRESS |-> NoPort]

\* the environment RunServicesWithCommand starts s with: the entries of the
\* env argument are copied over NITRIC_ENVIRONMENT and SERVICE_ADDRESS
CommandEnv(s, env) ==
    [mode |-> IF env.NITRIC_ENVIRONMENT # None
              THEN env.NITRIC_ENVIRONMENT ELSE "run",
     port |-> IF env.SERVICE_ADDRESS # NoPort
              THEN env.SERVICE_ADDRESS ELSE LocalCloudPort(s)]

\* the options RunServices hands to RunContainer: the port, and the env
\* argument; it sets no NITRIC_ENVIRONMENT of its own
ContainerEnv(s, env) ==
    [mode |-> env.NITRIC_ENVIRONMENT, port |-> LocalCloudPort(s)]

\* lo.FanOut makes the stop channels and starts its goroutine; the errgroup
\* is made
RunStart ==
    /\ rcmd # None
    /\ rmain = "start"
    /\ rmain' = "loop"
    /\ fpc' = 0
    /\ UNCHANGED <<rerr, rcmd, envArg, rnext, rpc, renv, firstErr, rret, stopSent,
                   stopChannels, delivered>>
    /\ UNCHANGED <<normVars, projVars, sessVars, collVars, apiVars, buildVars,
                   downVars, truncVars, upVars, cfgVars, nameVars, logVars,
                   baseVars>>

\* one iteration of the for loop: group.Go
RunSpawn ==
    /\ rmain = "loop"
    /\ rnext <= Len(services)
    /\ rpc' = [rpc EXCEPT ![services[rnext]] = "addService"]
    /\ rnext' = rnext + 1
    /\ UNCHANGED <<rerr, rcmd, envArg, rmain, renv, firstErr, rret, stopSent, fpc,
                   stopChannels, delivered>>
    /\ UNCHANGED <<normVars, projVars, sessVars, collVars, apiVars, buildVars,
                   downVars, truncVars, upVars, cfgVars, nameVars, logVars,
                   baseVars>>

\* localCloud.AddService returns: its error is returned to the group, else
\* svc.Run or svc.RunContainer is called with the service's own stop channel
RunAddService(s, ok) ==
    /\ rpc[s] = "addService"
    /\ IF ok
       THEN /\ rpc' = [rpc EXCEPT ![s] = "running"]
            /\ renv' = [renv EXCEPT ![s] =
                          IF rcmd = "RunServicesWithCommand"
                          THEN CommandEnv(s, envArg)
                          ELSE ContainerEnv(s, envArg)]
            /\ UNCHANGED <<rerr, firstErr>>
       ELSE /\ rpc' = [rpc EXCEPT ![s] = "returned"]
            /\ rerr' = [rerr EXCEPT ![s] = Err(s, "addService")]
            /\ firstErr' = IF firstErr = NilErr THEN Err(s, "addService")
                           ELSE firstErr
            /\ UNCHANGED renv
    /\ UNCHANGED <<rcmd, envArg, rmain, rnext, rret, stopSent, fpc,
                   stopChannels, delivered>>
    /\ UNCHANGED <<normVars, projVars, sessVars, collVars, apiVars, buildVars,
                   downVars, truncVars, upVars, cfgVars, nameVars, logVars,
                   baseVars>>

\* the running service receives a signal from its own stop channel and stops
RunReceiveStop(s) ==
    /\ rpc[s] = "running"
    /\ stopChannels[s] > 0
    /\ stopChannels' = [stopChannels EXCEPT ![s] = @ - 1]
    /\ rpc' = [rpc EXCEPT ![s] = "returned"]
    /\ UNCHANGED <<rerr, rcmd, envArg, rmain, rnext, renv, firstErr, rret, stopSent,
                   fpc, delivered>>
    /\ UNCHANGED <<normVars, projVars, sessVars, collVars, apiVars, buildVars,
                   downVars, truncVars, upVars, cfgVars, nameVars, logVars,
                   baseVars>>

\* a plausible slip: the group keeps the last error returned to it
RunExitLastErrorWins(s, ok) ==
    /\ rpc[s] = "running"
    /\ rpc' = [rpc EXCEPT ![s] = "returned"]
    /\ rerr' = [rerr EXCEPT ![s] = IF ok THEN NilErr ELSE Err(s, "run")]
    /\ firstErr' = IF ok THEN firstErr ELSE Err(s, "run")
    /\ UNCHANGED <<rcmd, envArg, rmain, rnext, renv, rret, stopSent, fpc,
                   stopChannels, delivered>>
    /\ UNCHANGED <<normVars, projVars, sessVars, collVars, apiVars, buildVars,
                   downVars, truncVars, upVars, cfgVars, nameVars, logVars,
                   baseVars>>

\* svc.Run or svc.RunContainer returns of itself, with an error or without
RunExit(s, ok) ==
    /\ rpc[s] = "running"
    /\ rpc' = [rpc EXCEPT ![s] = "returned"]
    /\ rerr' = [rerr EXCEPT ![s] = IF ok THEN NilErr ELSE Err(s, "run")]
    /\ firstErr' = IF ok \/ firstErr # NilErr THEN firstErr ELSE Err(s, "run")
    /\ UNCHANGED <<rcmd, envArg, rmain, rnext, renv, rret, stopSent, fpc,
                   stopChannels, delivered>>
    /\ UNCHANGED <<normVars, projVars, sessVars, collVars, apiVars, buildVars,
                   downVars, truncVars, upVars, cfgVars, nameVars, logVars,
                   baseVars>>

\* the loop is over; group.Wait() returns the first error once every
\* goroutine of the group has returned
RunWait ==
    /\ rmain = "loop"
    /\ rnext > Len(services)
    /\ \A s \in ServiceSet : rpc[s] = "returned"
    /\ rret' = firstErr
    /\ rmain' = "returned"
    /\ UNCHANGED <<rerr, rcmd, envArg, rnext, rpc, renv, firstErr, stopSent, fpc,
                   stopChannels, delivered>>
    /\ UNCHANGED <<normVars, projVars, sessVars, collVars, apiVars, buildVars,
                   downVars, truncVars, upVars, cfgVars, nameVars, logVars,
                   baseVars>>

\* the caller's send on the stop channel, which is unbuffered, meets the
\* receive of the goroutine of lo.FanOut
StopSignal ==
    /\ fpc = 0
    /\ stopSent < MaxStops
    /\ stopSent' = stopSent + 1
    /\ fpc' = 1
    /\ UNCHANGED <<rerr, rcmd, envArg, rmain, rnext, rpc, renv, firstErr, rret,
                   stopChannels, delivered>>
    /\ UNCHANGED <<normVars, projVars, sessVars, collVars, apiVars, buildVars,
                   downVars, truncVars, upVars, cfgVars, nameVars, logVars,
                   baseVars>>

\* a plausible slip: the signal is passed on to the first stop channel only
FanOutDeliverFirstOnly ==
    /\ fpc >= 1
    /\ fpc <= Len(services)
    /\ stopChannels[services[fpc]] < StopChannelCap
    /\ stopChannels' = [stopChannels EXCEPT ![services[fpc]] = @ + 1]
    /\ delivered' = [delivered EXCEPT ![services[fpc]] = @ + 1]
    /\ fpc' = Len(services) + 1
    /\ UNCHANGED <<rerr, rcmd, envArg, rmain, rnext, rpc, renv, firstErr, rret,
                   stopSent>>
    /\ UNCHANGED <<normVars, projVars, sessVars, collVars, apiVars, buildVars,
                   downVars, truncVars, upVars, cfgVars, nameVars, logVars,
                   baseVars>>

\* the goroutine of lo.FanOut sends the signal to the next stop channel,
\* blocking while that channel is full
FanOutDeliver ==
    /\ fpc >= 1
    /\ fpc <= Len(services)
    /\ stopChannels[services[fpc]] < StopChannelCap
    /\ stopChannels' = [stopChannels EXCEPT ![services[fpc]] = @ + 1]
    /\ delivered' = [delivered EXCEPT ![services[fpc]] = @ + 1]
    /\ fpc' = fpc + 1
    /\ UNCHANGED <<rerr, rcmd, envArg, rmain, rnext, rpc, renv, firstErr, rret,
                   stopSent>>
    /\ UNCHANGED <<normVars, projVars, sessVars, collVars, apiVars, buildVars,
                   downVars, truncVars, upVars, cfgVars, nameVars, logVars,
                   baseVars>>

\* the signal was sent to every stop channel: the goroutine receives again
FanOutNext ==
    /\ fpc > Len(services)
    /\ fpc' = 0
    /\ UNCHANGED <<rerr, rcmd, envArg, rmain, rnext, rpc, renv, firstErr, rret,
                   stopSent, stopChannels, delivered>>
    /\ UNCHANGED <<normVars, projVars, sessVars, collVars, apiVars, buildVars,
                   downVars, truncVars, upVars, cfgVars, nameVars, logVars,
                   baseVars>>

RunIdle ==
    /\ rmain = "start"
    /\ rnext = 1
    /\ rpc = [s \in ServiceNames |-> "none"]
    /\ renv = [s \in ServiceNames |-> NoEnv]
    /\ rerr = [s \in ServiceNames |-> NilErr]
    /\ firstErr = NilErr
    /\ rret = NilErr
    /\ stopSent = 0
    /\ fpc = -1
    /\ stopChannels = [s \in ServiceNames |-> 0]
    /\ delivered = [s \in ServiceNames |-> 0]

RunInit ==
    /\ rcmd = None
    /\ envArg = NoEnvArg
    /\ RunIdle

-----------------------------------------------------------------------------
(* stackDeleteCmd: the stack down command *)

\* the Default and the Options of the prompt
PromptDefault == "No"
PromptOptions == {"Yes", "No"}

\* the steps between the prompt and the task that calls Down, each of which
\* returns an error that is handed to utils.CheckErr: stack.ConfigFromOptions,
\* project.ConfigFromProjectPath, project.FromConfig, codeconfig.New,
\* provider.ProviderFromFile
ConfigSteps == <<"ConfigFromOptions", "ConfigFromProjectPath", "FromConfig",
                 "codeconfig.New", "ProviderFromFile">>

\* positions: before step k, and at the CheckErr that follows step k
AtStep(k)  == [at |-> "step", k |-> k]
AtCheck(k) == [at |-> "check", k |-> k]
At(name)   == [at |-> name, k |-> 0]

\* a plausible slip: the prompt is skipped
DownBeginSkipsPrompt ==
    /\ dpc = At("start")
    /\ dpc' = AtStep(1)
    /\ UNCHANGED <<confirmDown, outputCI, confirm, derr, downCalls, dexit>>
    /\ UNCHANGED <<normVars, projVars, sessVars, collVars, apiVars, buildVars,
                   runVars, truncVars, upVars, cfgVars, nameVars, logVars,
                   baseVars>>

\* the command starts: the prompt is shown unless -y was given or output.CI
DownBegin ==
    /\ dpc = At("start")
    /\ dpc' = IF ~confirmDown /\ ~outputCI THEN At("ask") ELSE AtStep(1)
    /\ UNCHANGED <<confirmDown, outputCI, confirm, derr, downCalls, dexit>>
    /\ UNCHANGED <<normVars, projVars, sessVars, collVars, apiVars, buildVars,
                   runVars, truncVars, upVars, cfgVars, nameVars, logVars,
                   baseVars>>

\* survey.AskOne returns: with an option chosen, the default when the user
\* only confirms, or with an error and no answer written
DownAsk(answer, ok) ==
    /\ dpc = At("ask")
    /\ confirm' = IF ok THEN answer ELSE confirm
    /\ derr' = ~ok
    /\ dpc' = At("checkAsk")
    /\ UNCHANGED <<confirmDown, outputCI, downCalls, dexit>>
    /\ UNCHANGED <<normVars, projVars, sessVars, collVars, apiVars, buildVars,
                   runVars, truncVars, upVars, cfgVars, nameVars, logVars,
                   baseVars>>

\* utils.CheckErr(err) after the prompt, which ends the command on an error
\* or returns; then the command exits with 0 unless the answer is "Yes"
DownCheckAnswer(exits) ==
    /\ dpc = At("checkAsk")
    /\ IF derr /\ exits
       THEN dpc' = At("exited") /\ dexit' = 1
       ELSE IF confirm # "Yes"
       THEN dpc' = At("exited") /\ dexit' = 0
       ELSE dpc' = AtStep(1) /\ UNCHANGED dexit
    /\ UNCHANGED <<confirmDown, outputCI, confirm, derr, downCalls>>
    /\ UNCHANGED <<normVars, projVars, sessVars, collVars, apiVars, buildVars,
                   runVars, truncVars, upVars, cfgVars, nameVars, logVars,
                   baseVars>>

\* step k returns, with an error or without
DownConfig(k, ok) ==
    /\ dpc = AtStep(k)
    /\ derr' = ~ok
    /\ dpc' = AtCheck(k)
    /\ UNCHANGED <<confirmDown, outputCI, confirm, downCalls, dexit>>
    /\ UNCHANGED <<normVars, projVars, sessVars, collVars, apiVars, buildVars,
                   runVars, truncVars, upVars, cfgVars, nameVars, logVars,
                   baseVars>>

\* utils.CheckErr(err) after step k, which ends the command on an error or
\* returns
DownCheckErr(k, exits) ==
    /\ dpc = AtCheck(k)
    /\ IF derr /\ exits
       THEN dpc' = At("exited") /\ dexit' = 1
       ELSE /\ dpc' = IF k < Len(ConfigSteps) THEN AtStep(k + 1) ELSE At("down")
            /\ UNCHANGED dexit
    /\ UNCHANGED <<confirmDown, outputCI, confirm, derr, downCalls>>
    /\ UNCHANGED <<normVars, projVars, sessVars, collVars, apiVars, buildVars,
                   runVars, truncVars, upVars, cfgVars, nameVars, logVars,
                   baseVars>>

\* the task runs: p.Down is called and returns, with an error or without;
\* tasklet.MustRun ends the command
DownRun(ok) ==
    /\ dpc = At("down")
    /\ downCalls' = downCalls + 1
    /\ derr' = ~ok
    /\ dpc' = At("exited")
    /\ dexit' = IF ok THEN 0 ELSE 1
    /\ UNCHANGED <<confirmDown, outputCI, confirm>>
    /\ UNCHANGED <<normVars, projVars, sessVars, collVars, apiVars, buildVars,
                   runVars, truncVars, upVars, cfgVars, nameVars, logVars,
                   baseVars>>

DownIdle ==
    /\ dpc = At("start")
    /\ confirm = ""
    /\ derr = FALSE
    /\ downCalls = 0
    /\ dexit = -1

\* the command is not invoked
DownInit ==
    /\ confirmDown = FALSE
    /\ outputCI = FALSE
    /\ dpc = At("none")
    /\ confirm = ""
    /\ derr = FALSE
    /\ downCalls = 0
    /\ dexit = -1

-----------------------------------------------------------------------------
(* stackUpdateCmd: the stack update command *)

\* the Default of the prompt shown when no stack is found
UpdatePromptDefault == "Yes"

\* the steps taken when the user agrees to create a stack, each followed by
\* utils.CheckErr
StackSteps == <<"newStack", "ConfigFromOptions">>

\* a plausible slip: the requirements are collected before the images are built
UpdateStepsCollectFirst ==
    << [name |-> "ConfigFromProjectPath", via |-> "CheckErr"],
       [name |-> "FromConfig", via |-> "CheckErr"],
       [name |-> "godotenv.Read", via |-> "CheckErr"],
       [name |-> "codeconfig.New", via |-> "CheckErr"],
       [name |-> "Collect", via |-> "MustRun"],
       [name |-> "BuildBaseImages", via |-> "MustRun"],
       [name |-> "ProviderFromFile", via |-> "CheckErr"],
       [name |-> "Up", via |-> "MustRun"],
       [name |-> "Render", via |-> "CheckErr"] >>

\* the steps of the command once it has a stack, in the order of the code:
\* a call whose error goes to utils.CheckErr, or a task run by
\* tasklet.MustRun; Render is skipped, as if it succeeded, when there is no
\* endpoint
UpdateSteps ==
    << [name |-> "ConfigFromProjectPath", via |-> "CheckErr"],
       [name |-> "FromConfig", via |-> "CheckErr"],
       [name |-> "godotenv.Read", via |-> "CheckErr"],
       [name |-> "BuildBaseImages", via |-> "MustRun"],
       [name |-> "codeconfig.New", via |-> "CheckErr"],
       [name |-> "Collect", via |-> "MustRun"],
       [name |-> "ProviderFromFile", via |-> "CheckErr"],
       [name |-> "Up", via |-> "MustRun"],
       [name |-> "Render", via |-> "CheckErr"] >>

\* positions: before step k of StackSteps, and at the CheckErr after it
AtStack(k)      == [at |-> "stack", k |-> k]
AtStackCheck(k) == [at |-> "stackCheck", k |-> k]

\* the error of a call: nil when it succeeded
ErrOf(ok) == IF ok THEN "nil" ELSE "other"

\* tasklet.MustRun ends the command when the task returned an error
MustRunExits(err) == err # "nil"

\* s, err := stack.ConfigFromOptions(); only the error "No nitric stacks
\* found" leads to the prompt, any other error is overwritten by the next call
UpConfigFromOptions(out) ==
    /\ upc = At("start")
    /\ uerr' = out
    /\ upc' = IF out = "noStacks" THEN At("ask") ELSE AtStep(1)
    /\ UNCHANGED <<envFiles, uconfirm, ulog, uexit>>
    /\ UNCHANGED <<normVars, projVars, sessVars, collVars, apiVars, buildVars,
                   runVars, downVars, truncVars, cfgVars, nameVars, logVars,
                   baseVars>>

\* survey.AskOne returns, with an answer or with an error
UpAsk(answer, ok) ==
    /\ upc = At("ask")
    /\ uconfirm' = IF ok THEN answer ELSE uconfirm
    /\ uerr' = ErrOf(ok)
    /\ upc' = At("checkAsk")
    /\ UNCHANGED <<envFiles, ulog, uexit>>
    /\ UNCHANGED <<normVars, projVars, sessVars, collVars, apiVars, buildVars,
                   runVars, downVars, truncVars, cfgVars, nameVars, logVars,
                   baseVars>>

\* utils.CheckErr(err) after the prompt, which ends the command on an error
\* or returns; then the command exits with 0 unless the answer is "Yes"
UpCheckAnswer(exits) ==
    /\ upc = At("checkAsk")
    /\ IF uerr # "nil" /\ exits
       THEN upc' = At("exited") /\ uexit' = 1
       ELSE IF uconfirm # "Yes"
       THEN upc' = At("exited") /\ uexit' = 0
       ELSE upc' = AtStack(1) /\ UNCHANGED uexit
    /\ UNCHANGED <<envFiles, uconfirm, uerr, ulog>>
    /\ UNCHANGED <<normVars, projVars, sessVars, collVars, apiVars, buildVars,
                   runVars, downVars, truncVars, cfgVars, nameVars, logVars,
                   baseVars>>

\* step k of StackSteps returns
UpStack(k, ok) ==
    /\ upc = AtStack(k)
    /\ uerr' = ErrOf(ok)
    /\ upc' = AtStackCheck(k)
    /\ UNCHANGED <<envFiles, uconfirm, ulog, uexit>>
    /\ UNCHANGED <<normVars, projVars, sessVars, collVars, apiVars, buildVars,
                   runVars, downVars, truncVars, cfgVars, nameVars, logVars,
                   baseVars>>

\* utils.CheckErr(err) after step k of StackSteps
UpStackCheck(k, exits) ==
    /\ upc = AtStackCheck(k)
    /\ IF uerr # "nil" /\ exits
       THEN upc' = At("exited") /\ uexit' = 1
       ELSE /\ upc' = IF k < Len(StackSteps) THEN AtStack(k + 1) ELSE AtStep(1)
            /\ UNCHANGED uexit
    /\ UNCHANGED <<envFiles, uconfirm, uerr, ulog>>
    /\ UNCHANGED <<normVars, projVars, sessVars, collVars, apiVars, buildVars,
                   runVars, downVars, truncVars, cfgVars, nameVars, logVars,
                   baseVars>>

\* step k of UpdateSteps returns; the task of a tasklet.Runner is recorded
\* with its outcome; godotenv.Read is called only when an env file exists
UpStep(k, ok) ==
    /\ upc = AtStep(k)
    /\ (UpdateSteps[k].name = "godotenv.Read" /\ ~envFiles) => ok
    /\ uerr' = ErrOf(ok)
    /\ ulog' = IF UpdateSteps[k].via = "MustRun"
               THEN Append(ulog, [name |-> UpdateSteps[k].name, ok |-> ok])
               ELSE ulog
    /\ upc' = AtCheck(k)
    /\ UNCHANGED <<envFiles, uconfirm, uexit>>
    /\ UNCHANGED <<normVars, projVars, sessVars, collVars, apiVars, buildVars,
                   runVars, downVars, truncVars, cfgVars, nameVars, logVars,
                   baseVars>>

\* what follows step k of UpdateSteps: utils.CheckErr(err), which ends the
\* command on an error or returns, or the end of tasklet.MustRun
UpCheck(k, exits) ==
    /\ upc = AtCheck(k)
    /\ IF \/ UpdateSteps[k].via = "CheckErr" /\ uerr # "nil" /\ exits
          \/ UpdateSteps[k].via = "MustRun" /\ MustRunExits(uerr)
       THEN upc' = At("exited") /\ uexit' = 1
       ELSE IF k < Len(UpdateSteps)
       THEN upc' = AtStep(k + 1) /\ UNCHANGED uexit
       ELSE upc' = At("exited") /\ uexit' = 0
    /\ UNCHANGED <<envFiles, uconfirm, uerr, ulog>>
    /\ UNCHANGED <<normVars, projVars, sessVars, collVars, apiVars, buildVars,
                   runVars, downVars, truncVars, cfgVars, nameVars, logVars,
                   baseVars>>

UpIdle ==
    /\ upc = At("start")
    /\ uconfirm = ""
    /\ uerr = "nil"
    /\ ulog = <<>>
    /\ uexit = -1

\* the command is not invoked
UpInit ==
    /\ envFiles = FALSE
    /\ upc = At("none")
    /\ uconfirm = ""
    /\ uerr = "nil"
    /\ ulog = <<>>
    /\ uexit = -1

-----------------------------------------------------------------------------
(* fromProjectConfiguration *)

\* the files of the project that patterns can match
ServiceFiles == {"a.ts", "b.ts"}

\* what afero.Glob returns: matching files, each once, in order
GlobResults == {<<>>, <<"a.ts">>, <<"b.ts">>, <<"a.ts", "b.ts">>}

\* a ServiceConfiguration together with what the file system makes of it:
\* its Match string, the files afero.Glob finds for it, and the call that
\* fails while it is processed, if one does. The empty Match makes the
\* pattern Basedir itself, which matches at most the one file of that name
ServiceSpecs ==
    {sp \in [Match : {"", "*.ts", "a*"}, files : GlobResults,
             fail : {"none", "glob", "context"}] :
        /\ sp.Match = "" => Len(sp.files) <= 1
        /\ sp.fail = "glob" => sp.files = <<>>}

\* matches[f] of a Go map of strings: the empty string for a missing key
MapGet(m, f) == IF f \in DOMAIN m THEN m[f] ELSE ""

NewService(f, sp) == [file |-> f, match |-> sp.Match]

NilProject == [isNil |-> TRUE, services |-> <<>>]

\* the inner loop over the files of sp from index j on
RECURSIVE FilesLoop(_, _, _, _)
FilesLoop(sp, j, matches, svcs) ==
    IF j > Len(sp.files)
    THEN [matches |-> matches, services |-> svcs, err |-> Nil]
    ELSE IF sp.fail = "context"
    THEN [matches |-> matches, services |-> svcs, err |-> "context"]
    ELSE IF MapGet(matches, sp.files[j]) # ""
    THEN [matches |-> matches, services |-> svcs, err |-> "multiple"]
    ELSE FilesLoop(sp, j + 1, MapSet(matches, sp.files[j], sp.Match),
                   Append(svcs, NewService(sp.files[j], sp)))

\* the outer loop over projectConfig.Services from index i on, and the return
RECURSIVE SpecsLoop(_, _, _, _)
SpecsLoop(cfg, i, matches, svcs) ==
    IF i > Len(cfg)
    THEN [project |-> [isNil |-> FALSE, services |-> svcs], err |-> Nil]
    ELSE IF cfg[i].fail = "glob"
    THEN [project |-> NilProject, err |-> "glob"]
    ELSE LET r == FilesLoop(cfg[i], 1, matches, svcs)
         IN  IF r.err # Nil
             THEN [project |-> NilProject, err |-> r.err]
             ELSE SpecsLoop(cfg, i + 1, r.matches, r.services)

fromProjectConfiguration(cfg) == SpecsLoop(cfg, 1, <<>>, <<>>)

\* fromProjectConfiguration is called and returns
CfgApply ==
    /\ cfgPc = "in"
    /\ cfgRet' = fromProjectConfiguration(projectConfig)
    /\ cfgPc' = "done"
    /\ UNCHANGED projectConfig
    /\ UNCHANGED <<normVars, projVars, sessVars, collVars, apiVars, buildVars,
                   runVars, downVars, truncVars, upVars, nameVars, logVars,
                   baseVars>>

CfgIdle ==
    /\ projectConfig = <<>>
    /\ cfgRet = [project |-> NilProject, err |-> Nil]
    /\ cfgPc = "in"

-----------------------------------------------------------------------------
(* ProjectConfiguration.pathToNormalizedServiceName *)

\* the characters of the service paths: a lower-case and an upper-case
\* letter, the dot, the path separator and a space
NameAlphabet == {"u", "U", ".", Sep, " "}

\* pc.Name
ProjectName == <<"U">>

\* the pattern of the last replacement, a string of five characters
NonWordPattern == <<"[", "^", "\\", "w", "]">>

RECURSIVE Interleave(_, _)
\* new before every character of str, and at its end
Interleave(str, new) ==
    IF str = <<>> THEN new
    ELSE new \o <<Head(str)>> \o Interleave(Tail(str), new)

RECURSIVE ReplaceFrom(_, _, _)
\* the non-overlapping occurrences of the non-empty old replaced by new
ReplaceFrom(str, old, new) ==
    IF Len(str) < Len(old) THEN str
    ELSE IF SubSeq(str, 1, Len(old)) = old
    THEN new \o ReplaceFrom(SubSeq(str, Len(old) + 1, Len(str)), old, new)
    ELSE <<Head(str)>> \o ReplaceFrom(Tail(str), old, new)

\* strings.ReplaceAll: an empty old matches before every character and at
\* the end of the string
ReplaceAll(str, old, new) ==
    IF old = <<>> THEN Interleave(str, new) ELSE ReplaceFrom(str, old, new)

\* filepath.Ext: the suffix from the last dot of the last element of the
\* path, empty when that element has no dot
filepathExt(path) ==
    LET dots == {i \in 1..Len(path) :
                    /\ path[i] = "."
                    /\ \A j \in i..Len(path) : path[j] # Sep}
    IN  IF dots = {} THEN <<>>
        ELSE SubSeq(path, CHOOSE i \in dots : \A j \in dots : j <= i, Len(path))

pathToNormalizedServiceName(path) ==
    LET prefixed  == ProjectName \o <<"_">> \o path
        dashed    == ReplaceAll(prefixed, <<Sep>>, <<"-">>)
        noExt     == ReplaceAll(dashed, filepathExt(dashed), <<>>)
        noDots    == ReplaceAll(noExt, <<".">>, <<"-">>)
        nonWord   == ReplaceAll(noDots, NonWordPattern, <<"-">>)
    IN  ToLower(nonWord)

\* pathToNormalizedServiceName is called and returns
NameApply ==
    /\ namePc = "in"
    /\ nameRet' = pathToNormalizedServiceName(servicePath)
    /\ namePc' = "done"
    /\ UNCHANGED servicePath
    /\ UNCHANGED <<normVars, projVars, sessVars, collVars, apiVars, buildVars,
                   runVars, downVars, truncVars, upVars, cfgVars, logVars,
                   baseVars>>

NameIdle ==
    /\ servicePath = <<>>
    /\ nameRet = <<>>
    /\ namePc = "in"

-----------------------------------------------------------------------------
(* build.BuildBaseImages *)

\* the keys of s.Functions and the names of functions
KeyList == <<"f", "g", "h", "i">>
FunctionKeys == {KeyList[i] : i \in 1..MaxFunctions}
FunctionNames == {"f", "g"}

\* project.Function values: the name, and whether Image and Dockerfile are
\* non-empty
Functions == [Name : FunctionNames, Image : BOOLEAN, Dockerfile : BOOLEAN]

\* the maps from some of the keys to functions
FunctionMaps == UNION {[ks -> Functions] : ks \in SUBSET FunctionKeys}
NoFunctions == [k \in {} |-> [Name |-> "f", Image |-> FALSE, Dockerfile |-> FALSE]]

\* the map m with m[k] = v
FunctionSet(m, k, v) ==
    [x \in DOMAIN m \cup {k} |-> IF x = k THEN v ELSE m[x]]

\* the branch of the loop body a function takes
Branch(fun) ==
    IF fun.Image THEN "image"
    ELSE IF fun.Dockerfile THEN "dockerfile"
    ELSE "handler"

\* the calls of each branch that can return an error, in order
Calls(branch) ==
    CASE branch = "image" -> <<"ImageTag">>
      [] branch = "dockerfile" -> <<"Build", "TagImageToNitricName">>
      [] branch = "handler" -> <<"NewRunTimeFromHandler", "dynamicDockerfile",
                                 "BaseDockerFile", "Build">>

\* containerengine.Discover
BaseDiscover(ok) ==
    /\ bbpc = "discover"
    /\ IF ok
       THEN bbpc' = "loop" /\ UNCHANGED bbret
       ELSE bbpc' = "returned" /\ bbret' = "Discover"
    /\ UNCHANGED <<functions, finalFunctions, visited, dockerfiles>>
    /\ UNCHANGED <<normVars, projVars, sessVars, collVars, apiVars, buildVars,
                   runVars, downVars, truncVars, upVars, cfgVars, nameVars,
                   logVars>>

\* a plausible slip: the project's map is updated as each function is done
BaseFunctionInPlace(key, failAt, name) ==
    LET fun == functions[key]
        calls == Calls(Branch(fun))
        done == IF Branch(fun) = "dockerfile"
                THEN [fun EXCEPT !.Name = name] ELSE fun
        at == IF Branch(fun) = "handler" THEN key ELSE done.Name
    IN  /\ bbpc = "loop"
        /\ key \in DOMAIN functions \ visited
        /\ failAt \in 0..Len(calls)
        /\ visited' = visited \cup {key}
        /\ IF failAt = 0
           THEN /\ functions' = FunctionSet(functions, at, done)
                /\ finalFunctions' = FunctionSet(finalFunctions, at, done)
                /\ dockerfiles' = IF Branch(fun) = "handler"
                                  THEN dockerfiles \cup {fun.Name}
                                  ELSE dockerfiles
                /\ UNCHANGED <<bbpc, bbret>>
           ELSE /\ bbpc' = "returned"
                /\ bbret' = calls[failAt]
                /\ dockerfiles' = {}
                /\ UNCHANGED <<functions, finalFunctions>>
        /\ UNCHANGED <<normVars, projVars, sessVars, collVars, apiVars,
                       buildVars, runVars, downVars, truncVars, upVars,
                       cfgVars, nameVars, logVars>>

\* one iteration of the range loop, on a key not taken yet: the calls of the
\* function's branch are made in order; the call numbered failAt returns an
\* error, which is returned at once, the deferred calls removing the dynamic
\* dockerfiles; with failAt = 0 every call succeeds and the function is put
\* in finalFunctions, under the name TagImageToNitricName returned for it in
\* the dockerfile branch
BaseFunction(key, failAt, name) ==
    LET fun == functions[key]
        calls == Calls(Branch(fun))
        done == IF Branch(fun) = "dockerfile"
                THEN [fun EXCEPT !.Name = name] ELSE fun
        at == IF Branch(fun) = "handler" THEN key ELSE done.Name
    IN  /\ bbpc = "loop"
        /\ key \in DOMAIN functions \ visited
        /\ failAt \in 0..Len(calls)
        /\ visited' = visited \cup {key}
        /\ IF failAt = 0
           THEN /\ finalFunctions' = FunctionSet(finalFunctions, at, done)
                /\ dockerfiles' = IF Branch(fun) = "handler"
                                  THEN dockerfiles \cup {fun.Name}
                                  ELSE dockerfiles
                /\ UNCHANGED <<bbpc, bbret>>
           ELSE /\ bbpc' = "returned"
                /\ bbret' = calls[failAt]
                /\ dockerfiles' = {}
                /\ UNCHANGED finalFunctions
        /\ UNCHANGED functions
        /\ UNCHANGED <<normVars, projVars, sessVars, collVars, apiVars,
                       buildVars, runVars, downVars, truncVars, upVars,
                       cfgVars, nameVars, logVars>>

\* the loop is over: s.Functions = finalFunctions; return nil, the deferred
\* calls removing the dynamic dockerfiles
BaseReturn ==
    /\ bbpc = "loop"
    /\ visited = DOMAIN functions
    /\ functions' = finalFunctions
    /\ dockerfiles' = {}
    /\ bbpc' = "returned"
    /\ UNCHANGED <<finalFunctions, visited, bbret>>
    /\ UNCHANGED <<normVars, projVars, sessVars, collVars, apiVars, buildVars,
                   runVars, downVars, truncVars, upVars, cfgVars, nameVars,
                   logVars>>

\* BuildBaseImages is not called
BaseIdle ==
    /\ functions = NoFunctions
    /\ finalFunctions = NoFunctions
    /\ visited = {}
    /\ dockerfiles = {}
    /\ bbpc = "idle"
    /\ bbret = "nil"

-----------------------------------------------------------------------------
(* utils.StringTrunc and its test *)

\* the string "1234567890" of the test cases
Digits == <<"1", "2", "3", "4", "5", "6", "7", "8", "9", "0">>

\* the table of TestStringTrunc
TruncTests ==
    << [name |-> "less than", s |-> Digits, max |-> 20, want |-> Digits],
       [name |-> "max len", s |-> Digits, max |-> 10, want |-> Digits],
       [name |-> "trunc", s |-> Digits, max |-> 7, want |-> SubSeq(Digits, 1, 7)] >>

\* a plausible slip: a string as long as max loses its last character
StringTruncOffByOne(str, max) ==
    IF Len(str) < max THEN str ELSE SubSeq(str, 1, max - 1)

\* StringTrunc: the string when it is no longer than max, else its first max
\* characters
StringTrunc(str, max) ==
    IF Len(str) <= max THEN str ELSE SubSeq(str, 1, max)

\* got := StringTrunc(tt.s, tt.max)
TruncApply ==
    /\ trPc = "in"
    /\ trGot' = StringTrunc(trS, trMax)
    /\ trPc' = "done"
    /\ UNCHANGED <<trCase, trS, trMax>>
    /\ UNCHANGED <<normVars, projVars, sessVars, collVars, apiVars, buildVars,
                   runVars, downVars, upVars, cfgVars, nameVars, logVars,
                   baseVars>>

TruncIdle ==
    /\ trCase = 0
    /\ trS = <<>>
    /\ trMax = 0
    /\ trGot = <<>>
    /\ trPc = "in"

-----------------------------------------------------------------------------
(* normalizePath on arbitrary paths *)

RECURSIVE SeqsUpTo(_, _)
\* the sequences over S of length at most n
SeqsUpTo(S, n) ==
    IF n = 0 THEN {<<>>}
    ELSE LET shorter == SeqsUpTo(S, n - 1)
         IN  shorter \cup {Append(q, x) : q \in shorter, x \in S}

NormalizeOnce ==
    /\ npc = "in"
    /\ nonce' = normalizePath(npath)
    /\ npc' = "once"
    /\ UNCHANGED <<npath, ntwice>>
    /\ UNCHANGED <<projVars, sessVars, collVars, apiVars, buildVars, runVars,
                   downVars, truncVars, upVars, cfgVars, nameVars, logVars,
                   baseVars>>

NormalizeTwice ==
    /\ npc = "once"
    /\ ntwice' = normalizePath(nonce)
    /\ npc' = "twice"
    /\ UNCHANGED <<npath, nonce>>
    /\ UNCHANGED <<projVars, sessVars, collVars, apiVars, buildVars, runVars,
                   downVars, truncVars, upVars, cfgVars, nameVars, logVars,
                   baseVars>>

NormIdle ==
    /\ npath = <<>>
    /\ nonce = <<>>
    /\ ntwice = <<>>
    /\ npc = "in"

-----------------------------------------------------------------------------
(* Specifications *)

\* normalizePath applied to every path over Alphabet of length at most MaxPathLen
InitNorm ==
    /\ npath \in SeqsUpTo(Alphabet, MaxPathLen)
    /\ nonce = <<>>
    /\ ntwice = <<>>
    /\ npc = "in"
    /\ services = <<>>
    /\ preview = FALSE
    /\ SessInit /\ CollInit /\ ApiInit /\ BuildInit /\ RunInit /\ DownInit /\ TruncIdle /\ UpInit
    /\ CfgIdle /\ NameIdle /\ LogInit /\ BaseIdle

NextNorm == NormalizeOnce \/ NormalizeTwice

SpecNorm == InitNorm /\ [][NextNorm]_vars

\* the sessions of a project of up to MaxServices services, fanned out by
\* CollectServicesRequirements
InitCollect ==
    /\ NormIdle
    /\ services \in {[i \in 1..n |-> i] : n \in 0..MaxServices}
    /\ preview \in BOOLEAN
    /\ SessInit /\ CollInit /\ ApiInit /\ BuildInit /\ RunInit /\ DownInit /\ TruncIdle /\ UpInit
    /\ CfgIdle /\ NameIdle /\ LogInit /\ BaseIdle

NextSession ==
    \E s \in ServiceSet :
        \/ \E ok \in BOOLEAN : SessionListen(s, ok)
        \/ \E ok \in BOOLEAN : SessionServe(s, ok)
        \/ ServeStart(s)
        \/ SessionLaunch(s)
        \/ \E runOk \in BOOLEAN : SessionReturn(s, runOk)

NextCoordinator ==
    \/ Spawn
    \/ \E s \in ServiceSet : GoLockReq(s)
    \/ \E s \in ServiceSet : GoAppendReq(s)
    \/ \E s \in ServiceSet : GoLockErr(s)
    \/ \E s \in ServiceSet : GoAppendErr(s)
    \/ CollectReturn

NextCollect ==
    \/ NextCoordinator
    \/ NextSession
    \/ \E s \in ServiceSet : DeclareSql(s)

SpecCollect == InitCollect /\ [][NextCollect]_vars

\* the session of one service, which registers workers on one Api
InitApi ==
    /\ NormIdle
    /\ services = <<ApiOwner>>
    /\ preview = FALSE
    /\ SessInit /\ CollInit /\ ApiInit /\ BuildInit /\ RunInit /\ DownInit /\ TruncIdle /\ UpInit
    /\ CfgIdle /\ NameIdle /\ LogInit /\ BaseIdle

NextWorkers ==
    \/ NextCoordinator
    \/ NextSession
    \/ \E h \in Handlers : \E w \in Workers : AddWorkerBegin(h, w)
    \/ \E h \in Handlers : AddWorkerEnd(h)

SpecWorkers == InitApi /\ [][NextWorkers]_vars

\* the session of ApiOwner once its service is launched: the coordinator has
\* started the session, the server of the session serves, the Api is empty
InitRegister ==
    /\ NormIdle
    /\ services = <<ApiOwner>>
    /\ preview = FALSE
    /\ spc = [s \in ServiceNames |-> IF s = ApiOwner THEN "running" ELSE "idle"]
    /\ server = [s \in ServiceNames |-> IF s = ApiOwner THEN "serving" ELSE "new"]
    /\ hasDb = [s \in ServiceNames |-> FALSE]
    /\ envMode = [s \in ServiceNames |-> IF s = ApiOwner THEN "build" ELSE None]
    /\ envPort = [s \in ServiceNames |->
                    IF s = ApiOwner THEN ListenerPort(s) ELSE NoPort]
    /\ sret = [s \in ServiceNames |-> [reqs |-> NilReqs, err |-> NilErr]]
    /\ mpc = "loop"
    /\ next = 2
    /\ wg = 1
    /\ gpc = [s \in ServiceNames |-> IF s = ApiOwner THEN "call" ELSE "none"]
    /\ gtmp = [s \in ServiceNames |-> <<>>]
    /\ reqLock = FALSE
    /\ errorLock = FALSE
    /\ allServiceRequirements = <<>>
    /\ serviceErrors = <<>>
    /\ cret = [reqs |-> NilSlice, err |-> NilErr]
    /\ ApiInit /\ BuildInit /\ RunInit /\ DownInit /\ TruncIdle /\ UpInit
    /\ CfgIdle /\ NameIdle
    /\ lpc = [s \in ServiceNames |-> IF s = ApiOwner THEN "mkdir" ELSE "none"]
    /\ nupd = [s \in ServiceNames |-> 0]
    /\ exited = FALSE
    /\ BaseIdle

\* the handlers of the session register one worker each on the empty Api, at
\* any time relative to each other
NextRegister ==
    \/ \E h \in Handlers : \E w \in Workers : AddWorkerCall(h, w)
    \/ \E h \in Handlers : AddWorkerLock(h)
    \/ \E h \in Handlers : AddWorkerEnd(h)

SpecRegister == InitRegister /\ [][NextRegister]_vars

NextSecurity ==
    \/ NextCoordinator
    \/ NextSession
    \/ \E h \in Handlers : \E n \in SecurityNames : \E sc \in Scopes :
          AddSecurity(h, n, sc)
    \/ \E h \in Handlers : \E n \in SecurityNames : \E sd \in Definitions :
          AddSecurityDefinition(h, n, sd)

SpecSecurity == InitApi /\ [][NextSecurity]_vars

\* BuildServices on a project of up to MaxServices services, on a machine of
\* up to MaxCPU processors; the receiver of the channel keeps receiving
InitBuild ==
    /\ NormIdle
    /\ services \in {[i \in 1..n |-> i] : n \in 0..MaxServices}
    /\ preview = FALSE
    /\ numCPU \in 1..MaxCPU
    /\ gomaxprocs \in 1..MaxCPU
    /\ SessInit /\ CollInit /\ ApiInit /\ BuildIdle /\ RunInit /\ DownInit /\ TruncIdle /\ UpInit
    /\ CfgIdle /\ NameIdle /\ LogInit /\ BaseIdle

NextBuild ==
    \/ BuildStart
    \/ BuildSpawn
    \/ BuildReturn
    \/ \E s \in ServiceSet : TaskAcquire(s)
    \/ \E s \in ServiceSet : TaskProgress(s)
    \/ \E s \in ServiceSet : \E ok \in BOOLEAN : TaskBuildEnd(s, ok)
    \/ \E s \in ServiceSet : TaskSend(s)
    \/ \E s \in ServiceSet : TaskRelease(s)
    \/ \E s \in ServiceSet : TaskDone(s)
    \/ CloserWait
    \/ CloserDrain
    \/ CloserClose

SpecBuild == InitBuild /\ [][NextBuild]_vars

\* GOMAXPROCS left at its default, the number of processors, on a project
\* of up to MaxFairServices services
InitBuildDefault ==
    /\ InitBuild
    /\ gomaxprocs = numCPU
    /\ Len(services) <= MaxFairServices

\* the goroutines of BuildServices keep being scheduled while one can step
SpecBuildFair == InitBuildDefault /\ [][NextBuild]_vars /\ WF_vars(NextBuild)

\* RunServices or RunServicesWithCommand on a project of up to MaxServices
\* services, the caller sending up to MaxStops signals on the stop channel
InitRun ==
    /\ NormIdle
    /\ services \in {[i \in 1..n |-> i] : n \in 0..MaxServices}
    /\ preview = FALSE
    /\ rcmd \in {"RunServices", "RunServicesWithCommand"}
    /\ envArg \in EnvArgs
    /\ SessInit /\ CollInit /\ ApiInit /\ BuildInit /\ RunIdle /\ DownInit /\ TruncIdle /\ UpInit
    /\ CfgIdle /\ NameIdle /\ LogInit /\ BaseIdle

NextRun ==
    \/ RunStart
    \/ RunSpawn
    \/ \E s \in ServiceSet : \E ok \in BOOLEAN : RunAddService(s, ok)
    \/ \E s \in ServiceSet : RunReceiveStop(s)
    \/ \E s \in ServiceSet : \E ok \in BOOLEAN : RunExit(s, ok)
    \/ RunWait
    \/ StopSignal
    \/ FanOutDeliver
    \/ FanOutNext

SpecRun == InitRun /\ [][NextRun]_vars

\* the goroutine of lo.FanOut keeps being scheduled while it can step
SpecRunFair == SpecRun /\ WF_vars(FanOutDeliver) /\ WF_vars(FanOutNext)

\* the launches of services: either CollectServicesRequirements or one of
\* RunServices and RunServicesWithCommand is called on the project
InitLaunch ==
    \/ InitCollect
    \/ /\ NormIdle
       /\ services \in {[i \in 1..n |-> i] : n \in 0..MaxServices}
       /\ preview = FALSE
       /\ rcmd \in {"RunServices", "RunServicesWithCommand"}
       /\ envArg \in EnvArgs
       /\ SessInit /\ CollIdle /\ ApiInit /\ BuildInit /\ RunIdle /\ DownInit /\ TruncIdle /\ UpInit
    /\ CfgIdle /\ NameIdle /\ LogInit /\ BaseIdle

NextLaunch == NextCollect \/ NextRun

SpecLaunch == InitLaunch /\ [][NextLaunch]_vars

\* the stack down command, with or without -y, in CI mode or not
InitDown ==
    /\ NormIdle
    /\ services = <<>>
    /\ preview = FALSE
    /\ confirmDown \in BOOLEAN
    /\ outputCI \in BOOLEAN
    /\ SessInit /\ CollInit /\ ApiInit /\ BuildInit /\ RunInit /\ DownIdle /\ TruncIdle /\ UpInit
    /\ CfgIdle /\ NameIdle /\ LogInit /\ BaseIdle

NextDown ==
    \/ DownBegin
    \/ \E a \in PromptOptions : \E ok \in BOOLEAN : DownAsk(a, ok)
    \/ \E exits \in BOOLEAN : DownCheckAnswer(exits)
    \/ \E k \in 1..Len(ConfigSteps) : \E ok \in BOOLEAN : DownConfig(k, ok)
    \/ \E k \in 1..Len(ConfigSteps) : \E exits \in BOOLEAN : DownCheckErr(k, exits)
    \/ \E ok \in BOOLEAN : DownRun(ok)

SpecDown == InitDown /\ [][NextDown]_vars

\* StringTrunc applied to the cases of its test and to every string over two
\* characters of length at most MaxTruncLen, with max up to one more
InitTrunc ==
    /\ NormIdle
    /\ services = <<>>
    /\ preview = FALSE
    /\ \/ /\ trCase \in 1..Len(TruncTests)
          /\ trS = TruncTests[trCase].s
          /\ trMax = TruncTests[trCase].max
       \/ /\ trCase = 0
          /\ trS \in SeqsUpTo({"1", "2"}, MaxTruncLen)
          /\ trMax \in 0..(MaxTruncLen + 1)
    /\ trGot = <<>>
    /\ trPc = "in"
    /\ SessInit /\ CollInit /\ ApiInit /\ BuildInit /\ RunInit /\ DownInit /\ UpInit
    /\ CfgIdle /\ NameIdle /\ LogInit /\ BaseIdle

NextTrunc == TruncApply

SpecTrunc == InitTrunc /\ [][NextTrunc]_vars

\* the stack update command, with or without a stack to begin with
InitUpdate ==
    /\ NormIdle
    /\ services = <<>>
    /\ preview = FALSE
    /\ SessInit /\ CollInit /\ ApiInit /\ BuildInit /\ RunInit /\ DownInit
    /\ TruncIdle /\ UpIdle /\ CfgIdle /\ NameIdle /\ LogInit /\ BaseIdle
    /\ envFiles \in BOOLEAN

NextUpdate ==
    \/ \E out \in {"nil", "noStacks", "other"} : UpConfigFromOptions(out)
    \/ \E a \in PromptOptions : \E ok \in BOOLEAN : UpAsk(a, ok)
    \/ \E exits \in BOOLEAN : UpCheckAnswer(exits)
    \/ \E k \in 1..Len(StackSteps) : \E ok \in BOOLEAN : UpStack(k, ok)
    \/ \E k \in 1..Len(StackSteps) : \E exits \in BOOLEAN : UpStackCheck(k, exits)
    \/ \E k \in 1..Len(UpdateSteps) : \E ok \in BOOLEAN : UpStep(k, ok)
    \/ \E k \in 1..Len(UpdateSteps) : \E exits \in BOOLEAN : UpCheck(k, exits)

SpecUpdate == InitUpdate /\ [][NextUpdate]_vars

\* fromProjectConfiguration on every configuration of up to MaxSpecs patterns
InitConfig ==
    /\ NormIdle
    /\ services = <<>>
    /\ preview = FALSE
    /\ SessInit /\ CollInit /\ ApiInit /\ BuildInit /\ RunInit /\ DownInit
    /\ TruncIdle /\ UpInit /\ NameIdle /\ LogInit /\ BaseIdle
    /\ projectConfig \in SeqsUpTo(ServiceSpecs, MaxSpecs)
    /\ cfgRet = [project |-> NilProject, err |-> Nil]
    /\ cfgPc = "in"

NextConfig == CfgApply

SpecConfig == InitConfig /\ [][NextConfig]_vars

\* pathToNormalizedServiceName on every path of at most MaxNameLen characters
InitName ==
    /\ NormIdle
    /\ services = <<>>
    /\ preview = FALSE
    /\ SessInit /\ CollInit /\ ApiInit /\ BuildInit /\ RunInit /\ DownInit
    /\ TruncIdle /\ UpInit /\ CfgIdle /\ LogInit /\ BaseIdle
    /\ servicePath \in SeqsUpTo(NameAlphabet, MaxNameLen)
    /\ nameRet = <<>>
    /\ namePc = "in"

NextName == NameApply

SpecName == InitName /\ [][NextName]_vars

\* CollectServicesRequirements and BuildServices both called on a project
\* of at most one service
InitCollectAndBuild == InitCollect /\ Len(services) <= 1

NextCollectAndBuild == NextCollect \/ NextBuild

SpecCollectAndBuild == InitCollectAndBuild /\ [][NextCollectAndBuild]_vars

\* BuildServices with a caller that may stop receiving
NextBuildStalled == NextBuild \/ ConsumerStop

SpecBuildStalled == InitBuildDefault /\ [][NextBuildStalled]_vars

\* the sessions of CollectServicesRequirements with their log writers; once
\* the process has exited, nothing runs
InitLog == InitCollect /\ Len(services) <= MaxLogServices

NextLogWriter ==
    \E s \in ServiceSet :
        \/ \E ok \in BOOLEAN : LogMkdirAll(s, ok)
        \/ \E ok \in BOOLEAN : LogTempFile(s, ok)
        \/ \E withErr \in BOOLEAN : RunUpdate(s, withErr)
        \/ \E ok \in BOOLEAN : LogWriteMessage(s, ok)
        \/ \E ok \in BOOLEAN : LogWriteError(s, ok)

NextLog ==
    \/ ~exited /\ NextCollect
    \/ NextLogWriter

SpecLog == InitLog /\ [][NextLog]_vars

\* every goroutine that can take a step eventually takes one
SpecLogFair == SpecLog /\ WF_vars(NextLog)

\* the handlers of a launched session call the three operations of the Api,
\* with workers of two colliding paths and one security name
ApiWorkers == [path : {PathUsersId, PathUsersUserId},
               methods : {<<"GET">>, <<"POST">>}]

NextApi ==
    \/ \E h \in Handlers : \E w \in ApiWorkers : AddWorkerBegin(h, w)
    \/ \E h \in Handlers : AddWorkerEnd(h)
    \/ \E h \in Handlers : \E sc \in Scopes : AddSecurity(h, "jwt", sc)
    \/ \E h \in Handlers : \E sd \in Definitions :
          AddSecurityDefinition(h, "jwt", sd)

SpecApi == InitRegister /\ [][NextApi]_vars

\* BuildBaseImages on a project of up to MaxFunctions functions
InitBase ==
    /\ NormIdle
    /\ services = <<>>
    /\ preview = FALSE
    /\ SessInit /\ CollInit /\ ApiInit /\ BuildInit /\ RunInit /\ DownInit
    /\ TruncIdle /\ UpInit /\ CfgIdle /\ NameIdle /\ LogInit
    /\ functions \in FunctionMaps
    /\ finalFunctions = NoFunctions
    /\ visited = {}
    /\ dockerfiles = {}
    /\ bbpc = "discover"
    /\ bbret = "nil"

NextBase ==
    \/ \E ok \in BOOLEAN : BaseDiscover(ok)
    \/ \E key \in FunctionKeys : \E failAt \in 0..4 : \E name \in FunctionNames :
          BaseFunction(key, failAt, name)
    \/ BaseReturn

SpecBase == InitBase /\ [][NextBase]_vars

Spec == SpecCollect

-----------------------------------------------------------------------------
(* Properties *)

\* the set of the elements of a sequence
Range(q) == {q[i] : i \in 1..Len(q)}

\* the pairs of declared paths with equal normalized forms
SameNormalized ==
    {pq : pq \in {xy \in Paths \X Paths :
                     normalizePath(xy[1]) = normalizePath(xy[2])}}

\* two workers collide: equal normalized paths and a common method
Collide(a, b) ==
    /\ <<a.path, b.path>> \in SameNormalized
    /\ Range(a.methods) \cap Range(b.methods) # {}

\* w collides with a worker of the list ws
CollidesWith(w, ws) == \E i \in 1..Len(ws) : Collide(ws[i], w)

\* the segments of p and q are the same, except where both are placeholders
DiffersOnlyInParamNames(p, q, IsParam(_)) ==
    LET a == SplitPath(p)
        b == SplitPath(q)
    IN  /\ Len(a) = Len(b)
        /\ \A k \in 1..Len(a) : a[k] = b[k] \/ (IsParam(a[k]) /\ IsParam(b[k]))

\* {name}
BraceParam(seg) == Len(seg) >= 2 /\ seg[1] = "{" /\ seg[Len(seg)] = "}"

\* :name
ColonParam(seg) == HasPrefix(seg, ":")

\* the pairs of declared paths that differ only in the names of {name} segments
BraceTwins ==
    {pq : pq \in {xy \in Paths \X Paths :
                     DiffersOnlyInParamNames(xy[1], xy[2], BraceParam)}}

\* the pairs of declared paths that differ only in the names of :name segments
ColonTwins ==
    {pq : pq \in {xy \in Paths \X Paths :
                     DiffersOnlyInParamNames(xy[1], xy[2], ColonParam)}}

\* C1: in every reachable state of the Api, whatever the interleaving of the
\* AddWorker calls, no two stored workers have equal normalized paths and a
\* method in common.
C1_NoOverlappingWorkers ==
    \A i, j \in 1..Len(workers) :
        i < j => ~Collide(workers[i], workers[j])

\* two workers are stored and a third registration was rejected
C1_Witness == Len(workers) = 2 /\ errors = 1

\* C2: an AddWorker call that returns leaves the number of stored workers
\* unchanged when its worker collides with a stored one, and increases it by
\* exactly one otherwise.
C2_CountUnchangedOrPlusOne ==
    [][\A h \in Handlers :
          (apc[h] = "scanned" /\ apc'[h] = "idle") =>
              Len(workers') = Len(workers) +
                  (IF CollidesWith(aarg[h], workers) THEN 0 ELSE 1)]_vars

\* both outcomes happened: one call was rejected, another accepted after it
C2_Witness == errors >= 1 /\ Len(workers) >= 2 /\ \A h \in Handlers : apc[h] = "idle"

\* C3: matchingWorkers(a, b) holds exactly when the normalized paths are equal
\* and the method lists share a method: the scan of AddWorker, which applies
\* matchingWorkers to each stored worker and the new one, finds a match
\* exactly when the new worker collides with a stored one (with one stored
\* worker, the verdict is matchingWorkers of that pair), so two workers on
\* one path with disjoint methods are not a match.
C3_MatchIffCollide ==
    \A h \in Handlers :
        apc[h] = "scanned" => (afound[h] <=> CollidesWith(aarg[h], workers))

\* two workers with the same path and disjoint methods are both stored
C3_Witness ==
    \E i, j \in 1..Len(workers) :
        /\ i < j
        /\ workers[i].path = workers[j].path
        /\ Range(workers[i].methods) \cap Range(workers[j].methods) = {}

\* C4 as stated: paths that differ only in the names of their placeholders,
\* written {name}, normalize to the same string, so of two such workers
\* sharing a method the second is not stored.
C4_BraceParamsCollide ==
    \A i, j \in 1..Len(workers) :
        (/\ i < j
         /\ <<workers[i].path, workers[j].path>> \in BraceTwins
         /\ Range(workers[i].methods) \cap Range(workers[j].methods) # {})
        => FALSE

\* C4, amended: paths that differ only in the names of their placeholders,
\* a placeholder being a segment that starts with a colon, normalize to the
\* same string, so of two such workers sharing a method the second is not
\* stored.
C4_ColonParamsCollide ==
    /\ \A i, j \in 1..Len(workers) :
          (/\ i < j
           /\ <<workers[i].path, workers[j].path>> \in ColonTwins
           /\ Range(workers[i].methods) \cap Range(workers[j].methods) # {})
          => FALSE
    /\ \A h \in Handlers :
          (/\ apc[h] = "scanned"
           /\ \E i \in 1..Len(workers) :
                 /\ <<workers[i].path, aarg[h].path>> \in ColonTwins
                 /\ Range(workers[i].methods) \cap Range(aarg[h].methods) # {})
          => /\ afound[h]
             /\ \A i \in 1..Len(workers) :
                   <<workers[i].path, aarg[h].path>> \in ColonTwins
                   => <<workers[i].path, aarg[h].path>> \in SameNormalized

\* /users/:userId is being registered with GET while /users/:id is stored
\* with GET, and the scan found the match
C4_Witness ==
    \E h \in Handlers :
        /\ apc[h] = "scanned"
        /\ afound[h]
        /\ aarg[h] = [path |-> PathUsersUserId, methods |-> <<"GET">>]
        /\ workers = <<[path |-> PathUsersId, methods |-> <<"GET">>]>>

\* C5: normalizePath is idempotent.
C5_NormalizeIdempotent == npc = "twice" => ntwice = nonce

\* a path that normalization changes was normalized twice
C5_Witness == npc = "twice" /\ nonce # npath /\ nonce # <<>>

\* C6: an AddWorker call whose scan found a match records exactly one
\* conflict, stores nothing, keeps the stored workers and returns with the
\* lock released; a session fails only because binding, reading the port or
\* the launch failed, or for the database precondition, never because of a
\* recorded conflict.
C6_ConflictIsNotFatal ==
    [][/\ \A h \in Handlers :
             (apc[h] = "scanned" /\ afound[h] /\ apc'[h] = "idle") =>
                 /\ errors' = errors + 1
                 /\ workers' = workers
                 /\ ~lock'
       /\ (spc[ApiOwner] = "running" /\ spc'[ApiOwner] = "returned") =>
             \/ sret'[ApiOwner].err = NilErr
             \/ sret'[ApiOwner].err.kind = "run"
             \/ (sret'[ApiOwner].err.kind = "preview" /\ hasDb[ApiOwner] /\ ~preview)]_vars

\* a conflict was recorded and the session returned its requirements
C6_Witness ==
    /\ errors >= 1
    /\ spc[ApiOwner] = "returned"
    /\ sret[ApiOwner].err = NilErr
    /\ sret[ApiOwner].reqs # NilReqs

\* C7: after AddSecurity(name, nil) the security map holds name, mapped to
\* the empty list; a name never added is not a key of the map.
C7_NilScopesStoredEmpty ==
    /\ \A n \in DOMAIN lastSec :
          lastSec[n].isNil => (n \in DOMAIN security /\ security[n] = Slice(<<>>))
    /\ \A n \in SecurityNames : n \notin DOMAIN lastSec => n \notin DOMAIN security

\* one name was added with nil scopes, the other was never added
C7_Witness ==
    /\ "jwt" \in DOMAIN lastSec
    /\ lastSec["jwt"].isNil
    /\ "key" \notin DOMAIN security

\* the value AddSecurity stores for a scopes argument
StoredScopes(scopes) == IF scopes.isNil THEN Slice(<<>>) ELSE scopes

\* C8: the value stored under each name is that of the most recent call for
\* that name, for both maps; a name holds a value only if a call named it.
C8_LastWriteWins ==
    /\ DOMAIN security = DOMAIN lastSec
    /\ \A n \in DOMAIN lastSec : security[n] = StoredScopes(lastSec[n])
    /\ DOMAIN securityDefinitions = DOMAIN lastDef
    /\ \A n \in DOMAIN lastDef : securityDefinitions[n] = lastDef[n]

\* an entry was replaced by another value while the other name holds one too
C8_Witness ==
    /\ overwritten
    /\ DOMAIN securityDefinitions = SecurityNames
    /\ DOMAIN security = SecurityNames

\* the services whose session returned an error
Failed == {s \in ServiceSet : spc[s] = "returned" /\ sret[s].err # NilErr}

\* C9: CollectServicesRequirements returns an error and no requirements at
\* all when a session failed, and exactly one requirements set per service
\* of the project when none failed.
C9_AllOrNothing ==
    mpc = "returned" =>
        IF Failed # {}
        THEN cret.err # NilErr /\ cret.reqs = NilSlice
        ELSE /\ cret.err = NilErr
             /\ ~cret.reqs.isNil
             /\ Len(cret.reqs.elems) = Len(services)
             /\ {r.svc : r \in Range(cret.reqs.elems)} = ServiceSet

\* an error was returned although the session of some service succeeded
C9_Witness ==
    /\ mpc = "returned"
    /\ cret.err # NilErr
    /\ Len(allServiceRequirements) >= 1

\* C10: the error returned wraps the error of every failed session, one per
\* failed service, whatever the interleaving of the sessions.
C10_EveryFailureJoined ==
    (mpc = "returned" /\ Failed # {}) =>
        /\ cret.err.kind = "join"
        /\ Range(cret.err.joined) = {sret[s].err : s \in Failed}
        /\ Len(cret.err.joined) = Cardinality(Failed)

\* the returned error wraps the errors of two failed sessions
C10_Witness ==
    /\ mpc = "returned"
    /\ Cardinality(Failed) >= 2
    /\ Len(cret.err.joined) >= 2

\* the number of entries the session of s has in the two lists
EntriesOf(s) ==
    Cardinality({i \in 1..Len(allServiceRequirements) :
                    allServiceRequirements[i].svc = s})
    + Cardinality({j \in 1..Len(serviceErrors) : serviceErrors[j].svc = s})

\* C11: a spawned session can start however many sessions are running; once
\* CollectServicesRequirements has returned, every session has returned and
\* its goroutine has ended, each service has exactly one entry in exactly one
\* of the two lists, and the lengths of the lists sum to the number of services
C11_OneEntryPerService ==
    /\ \A s \in ServiceSet :
          (gpc[s] = "call" /\ spc[s] = "idle") =>
              ENABLED (\E ok \in BOOLEAN : SessionListen(s, ok))
    /\ mpc = "returned" =>
          /\ \A s \in ServiceSet :
                gpc[s] = "done" /\ spc[s] = "returned" /\ EntriesOf(s) = 1
          /\ Len(allServiceRequirements) + Len(serviceErrors) = Len(services)

\* the function has returned for MaxServices services, some of which failed
C11_Witness ==
    /\ mpc = "returned"
    /\ Len(services) = MaxServices
    /\ Len(allServiceRequirements) > 0
    /\ Len(serviceErrors) > 0

\* the state of the session of t and the position of its goroutine
SessionOf(t) == <<spc[t], server[t], hasDb[t], envMode[t], sret[t], gpc[t]>>

\* the session of t can take a step of its own
CanStep(t) ==
    ENABLED (\E ok \in BOOLEAN :
                \/ SessionListen(t, ok)
                \/ SessionServe(t, ok)
                \/ SessionLaunch(t)
                \/ SessionReturn(t, ok))

\* C12: a step in which the session of s fails leaves the session of every
\* sibling as it was; an error a session returns is its own; and a session
\* that was started and has not returned can always take its next step,
\* whatever its siblings returned
C12_FailureAbortsOnlyItsSession ==
    /\ [][\A s \in ServiceSet :
            (sret[s].err = NilErr /\ sret'[s].err # NilErr) =>
                \A t \in ServiceSet \ {s} : SessionOf(t)' = SessionOf(t)]_vars
    /\ [](\A t \in ServiceSet :
            /\ sret[t].err # NilErr => sret[t].err.svc = t
            /\ (gpc[t] = "call" /\ spc[t] # "returned") => CanStep(t))

\* one session failed to listen, another failed to run, and a sibling
\* returned its requirements
C12_Witness ==
    \E s, t, u \in ServiceSet :
        /\ sret[s].err.kind = "listen"
        /\ sret[t].err.kind = "run"
        /\ spc[u] = "returned" /\ sret[u] = RetOk(u, hasDb[u])

Rank(pos) ==
    CASE pos = "idle" -> 0
      [] pos = "listening" -> 1
      [] pos = "ready" -> 2
      [] pos = "running" -> 3
      [] pos = "returned" -> 4

\* C14: a session only moves forward and re-enters no position; the service
\* is launched only from the position reached once the collector is
\* registered, the listener bound and Serve handed to its goroutine, never
\* after net.Listen failed; and the server is stopped only by the return of
\* the session, which follows the return of RunContainer when it was called
C14_ForwardOnly ==
    /\ [][\A s \in ServiceSet :
            /\ spc'[s] # spc[s] => Rank(spc'[s]) > Rank(spc[s])
            /\ envMode'[s] # envMode[s] =>
                  /\ spc[s] = "ready" /\ spc'[s] = "running"
                  /\ server[s] \in {"spawned", "serving"}
            /\ (server'[s] = "stopped" /\ server[s] # "stopped") =>
                  /\ spc'[s] = "returned"
                  /\ spc[s] = "running" \/ envMode[s] = None]_vars
    /\ [](\A s \in ServiceSet :
            /\ spc[s] = "running" => envMode[s] # None
            /\ envMode[s] # None => server[s] # "new" /\ sret[s].err.kind # "listen"
            /\ sret[s].err.kind = "listen" => envMode[s] = None)

\* one session went through every position and returned its requirements,
\* while the session that failed to bind never launched its service
C14_Witness ==
    \E s, t \in ServiceSet :
        /\ spc[s] = "returned" /\ envMode[s] = "build"
        /\ server[s] = "stopped" /\ sret[s].err = NilErr
        /\ spc[t] = "returned" /\ sret[t].err.kind = "listen" /\ envMode[t] = None

\* the session of s has returned after RunContainer returned without error
RanToCompletion(s) ==
    spc[s] = "returned" /\ envMode[s] # None /\ sret[s].err.kind # "run"

\* C15 as stated: the preview-feature error names the service and its file
C15_ErrorNamesServiceAndFile ==
    \A s \in ServiceSet :
        sret[s].err.kind = "preview" =>
            /\ ServiceName(s) \in Range(sret[s].err.args)
            /\ GetFilePath(s) \in Range(sret[s].err.args)

\* C15: a session whose service ran to completion fails, returning no
\* requirements, exactly when a SQL database was declared and the preview
\* feature is not enabled; the message of the error is formatted from the
\* file path of the service alone
C15_PreviewGate ==
    \A s \in ServiceSet :
        RanToCompletion(s) =>
            IF hasDb[s] /\ ~preview
            THEN /\ sret[s].reqs = NilReqs
                 /\ sret[s].err.kind = "preview"
                 /\ sret[s].err.args = <<GetFilePath(s)>>
            ELSE sret[s] = RetOk(s, hasDb[s])

\* without the preview feature, the session of a service that declared a
\* database failed and the session of one that declared none succeeded
C15_Witness ==
    \E s, t \in ServiceSet :
        /\ ~preview
        /\ RanToCompletion(s) /\ hasDb[s] /\ sret[s].err.kind = "preview"
        /\ RanToCompletion(t) /\ ~hasDb[t] /\ sret[t].err = NilErr

\* the requirements of a service that made no registration call
EmptyReqs(s) == Reqs(s, FALSE)

\* C16: a session whose service ran to completion without a registration
\* call returns the empty requirements of that service and no error
C16_NoRegistrationSucceeds ==
    \A s \in ServiceSet :
        (RanToCompletion(s) /\ ~hasDb[s] /\ workers = <<>> /\ errors = 0) =>
            sret[s].reqs = EmptyReqs(s) /\ sret[s].err = NilErr

\* the empty requirements of a service are in the list of the coordinator
C16_Witness ==
    \E s \in ServiceSet :
        /\ RanToCompletion(s) /\ ~hasDb[s] /\ workers = <<>> /\ errors = 0
        /\ gpc[s] = "done"
        /\ \E i \in 1..Len(allServiceRequirements) :
              allServiceRequirements[i] = EmptyReqs(s)

\* the services whose BuildImage call is in progress
Building == {s \in ServiceSet : tpc[s] = "building"}

\* C17: the number of services whose BuildImage call is in progress is at
\* most the capacity of the permit channel, which is the smaller of the
\* number of processors and GOMAXPROCS
C17_AtMostCapBuilding ==
    /\ Cardinality(Building) <= capMaxConcurrentBuilds
    /\ capMaxConcurrentBuilds <= numCPU
    /\ capMaxConcurrentBuilds <= gomaxprocs
    /\ capMaxConcurrentBuilds \in {numCPU, gomaxprocs}

\* as many builds as there are permits are in progress, at least two, while
\* another service waits for a permit
C17_Witness ==
    /\ capMaxConcurrentBuilds >= 2
    /\ Cardinality(Building) = capMaxConcurrentBuilds
    /\ \E s \in ServiceSet : tpc[s] = "acquire"

RECURSIVE SumHeld(_)
\* the number of permits held by the build goroutines of the services of S
SumHeld(S) ==
    IF S = {} THEN 0
    ELSE LET s == CHOOSE x \in S : TRUE
         IN  held[s] + SumHeld(S \ {s})

\* C18: a build goroutine holds exactly one permit from its acquire to its
\* release, which surround the BuildImage call and the terminal update, and
\* none before or after, whatever BuildImage returned; the permits held by
\* build goroutines are those in the channel that the closing goroutine did
\* not put there, at most the capacity, and none once every goroutine ended
C18_OnePermitPerTask ==
    /\ \A s \in ServiceNames :
          held[s] = IF tpc[s] \in {"building", "send", "release"} THEN 1 ELSE 0
    /\ SumHeld(ServiceNames) + drained = maxConcurrentBuilds
    /\ SumHeld(ServiceNames) <= capMaxConcurrentBuilds
    /\ (\A s \in ServiceSet : tpc[s] = "done") => SumHeld(ServiceNames) = 0

\* every build goroutine has ended, after a failed build and a successful
\* one, and no permit is held
C18_Witness ==
    /\ bpc = "returned" /\ Len(services) >= 2
    /\ \A s \in ServiceSet : tpc[s] = "done"
    /\ \E s, t \in ServiceSet : buildErr[s] /\ ~buildErr[t]
    /\ SumHeld(ServiceNames) = 0

\* C19: from the moment the closing goroutine is past waitGroup.Wait(), every
\* build goroutine has ended; when updatesChan is closed no build goroutine
\* holds a permit, the closing goroutine having filled the channel; and no
\* goroutine ever sends on the closed channel
C19_CloseAfterAllTasks ==
    /\ clpc \in {"drain", "done"} => \A s \in ServiceSet : tpc[s] = "done"
    /\ closed =>
          /\ clpc = "done"
          /\ SumHeld(ServiceNames) = 0
          /\ maxConcurrentBuilds = capMaxConcurrentBuilds
    /\ ~panicked

\* updatesChan is closed after the builds of MaxServices services, one of
\* which sent an update from its writer before its terminal update
C19_Witness ==
    /\ closed
    /\ Len(services) = MaxServices
    /\ \E s \in ServiceSet : Len(updates[s]) >= 2

\* the number of terminal updates received for s
TerminalCount(s) ==
    Cardinality({i \in 1..Len(updates[s]) : updates[s][i].Status \in Terminal})

\* every service has exactly one terminal update, the last of its updates,
\* which tells what BuildImage returned
AllReported ==
    \A s \in ServiceSet :
        /\ TerminalCount(s) = 1
        /\ updates[s][Len(updates[s])] =
              ServiceBuildUpdate(s, IF buildErr[s] THEN "Error" ELSE "Complete")

\* C20: no service ever has two terminal updates, the channel is closed only
\* once every service has exactly one, and, when the project has a service
\* and the goroutines keep running, the channel is eventually closed for good
C20_EveryServiceReportsThenClose ==
    /\ [](\A s \in ServiceNames :
            /\ TerminalCount(s) <= 1
            /\ s \notin ServiceSet => updates[s] = <<>>)
    /\ [](closed => AllReported)
    /\ (Len(services) >= 1) => <>[](closed /\ AllReported)

\* the channel is closed after MaxFairServices terminal updates, of both
\* kinds
C20_Witness ==
    /\ closed
    /\ Len(services) = MaxFairServices
    /\ AllReported
    /\ \E s, t \in ServiceSet : buildErr[s] /\ ~buildErr[t]

\* the state of the build goroutine of t and the updates received from it
BuildOf(t) == <<tpc[t], buildErr[t], held[t], updates[t]>>

\* C21: BuildServices has returned an error, and then started no goroutine,
\* exactly when the project has no service; a step in which BuildImage fails
\* for s changes neither what BuildServices returned, nor the channel, nor the
\* build of any other service; and an Error update is received for s only
\* when BuildImage failed for s, with the name of s and BuildImage's error
C21_OnlyEmptyFailsSynchronously ==
    /\ [](bpc = "returned" => (bret = "error" <=> Len(services) = 0))
    /\ [](bret = "error" =>
            /\ clpc = "none"
            /\ \A s \in ServiceNames : tpc[s] = "none" /\ updates[s] = <<>>)
    /\ [](\A s \in ServiceNames : \A i \in 1..Len(updates[s]) :
            /\ updates[s][i].ServiceName = s
            /\ updates[s][i].Status = "Error" =>
                  buildErr[s] /\ updates[s][i].Err = BuildImageErr(s)
            /\ updates[s][i].Status # "Error" => updates[s][i].Err = NilErr)
    /\ [][\A s \in ServiceSet :
            (~buildErr[s] /\ buildErr'[s]) =>
                /\ bret' = bret /\ closed' = closed /\ clpc' = clpc
                /\ \A t \in ServiceSet \ {s} : BuildOf(t)' = BuildOf(t)]_vars

\* the Error update of a failed build was received while the build of
\* another service goes on, BuildServices having returned the channel
C21_Witness ==
    /\ bret = "updatesChan"
    /\ \E s, t \in ServiceSet :
          /\ buildErr[s]
          /\ updates[s] # <<>>
          /\ updates[s][Len(updates[s])] = ServiceBuildUpdate(s, "Error")
          /\ tpc[t] = "building"

\* C22: a step that changes the requirements collected for s is taken while
\* the service of s runs against the serving server of its own session, and
\* changes neither the requirements nor the result of any other session
C22_SessionsAreIsolated ==
    [][\A s \in ServiceSet :
          hasDb'[s] # hasDb[s] =>
              /\ spc[s] = "running" /\ server[s] = "serving"
              /\ \A t \in ServiceNames \ {s} :
                    hasDb'[t] = hasDb[t] /\ sret'[t] = sret[t]]_vars

\* two sessions run at once on serving servers; one collected a database
\* declaration and the other did not
C22_Witness ==
    \E s, t \in ServiceSet :
        /\ spc[s] = "running" /\ server[s] = "serving" /\ hasDb[s]
        /\ spc[t] = "running" /\ server[t] = "serving" /\ ~hasDb[t]

C24_CollectionAndRunModes ==
    \A s \in ServiceNames :
        /\ envMode[s] # None =>
              envMode[s] = "collection" /\ envPort[s] = ListenerPort(s)
        /\ (rcmd = "RunServicesWithCommand" /\ renv[s] # NoEnv) =>
              renv[s] = [mode |-> "run", port |-> LocalCloudPort(s)]

\* C24: a service under collection is launched with the port of the listener
\* of its own session and the mode 'build', never 'run'; RunServicesWithCommand
\* starts a service with the mode 'run' and the address of the port the local
\* cloud returned for it, each unless the env argument has an entry for the
\* key, which then replaces it
C24_LaunchEnvironment ==
    \A s \in ServiceNames :
        /\ envMode[s] # None =>
              /\ envMode[s] = "build" /\ envMode[s] # "run"
              /\ envPort[s] = ListenerPort(s)
        /\ (rcmd = "RunServicesWithCommand" /\ renv[s] # NoEnv) =>
              /\ renv[s].mode = IF envArg.NITRIC_ENVIRONMENT = None THEN "run"
                                ELSE envArg.NITRIC_ENVIRONMENT
              /\ renv[s].port = IF envArg.SERVICE_ADDRESS = NoPort
                                THEN LocalCloudPort(s)
                                ELSE envArg.SERVICE_ADDRESS

\* the services of two sessions run at once, each launched with the mode
\* 'build' and the port of the listener of its own session
C24_Witness ==
    \E s, t \in ServiceSet :
        /\ s # t
        /\ spc[s] = "running" /\ envMode[s] = "build"
        /\ spc[t] = "running" /\ envMode[t] = "build"
        /\ envPort[s] = ListenerPort(s) /\ envPort[t] = ListenerPort(t)
        /\ envPort[s] # envPort[t]

\* C25: the provider's Down is called at most once, and only when -y was
\* given, or output.CI is set, or the prompt's answer is "Yes"; the answer is
\* "Yes" only when the prompt was shown and that option was chosen
C25_DownNeedsConsent ==
    /\ downCalls <= 1
    /\ downCalls > 0 => (confirmDown \/ outputCI \/ confirm = "Yes")
    /\ confirm \in PromptOptions \cup {""}
    /\ confirm # "" => ~confirmDown /\ ~outputCI
    /\ (dexit # -1 /\ ~confirmDown /\ ~outputCI /\ confirm # "Yes") =>
          downCalls = 0

\* Down was called after the user answered "Yes", with neither -y nor CI
C25_Witness ==
    /\ ~confirmDown /\ ~outputCI
    /\ confirm = "Yes"
    /\ downCalls = 1

\* C26: the result of StringTrunc is s itself when s is no longer than max,
\* and in every case the prefix of s of length min(Len(s), max); on the cases
\* of TestStringTrunc it is the string the test wants
C26_TruncIsPrefix ==
    trPc = "done" =>
        /\ Len(trS) <= trMax => trGot = trS
        /\ Len(trGot) = min(Len(trS), trMax)
        /\ trGot = SubSeq(trS, 1, Len(trGot))
        /\ trCase > 0 => trGot = TruncTests[trCase].want

\* the case "trunc" of the test was computed, and cut to 7 characters
C26_Witness ==
    /\ trPc = "done"
    /\ trCase > 0
    /\ TruncTests[trCase].name = "trunc"
    /\ Len(trGot) = 7 /\ Len(trS) = 10

\* C27: the conflict AddWorker records on a collision describes both
\* conflicting routes, the stored worker that matched and the rejected worker
C27_ConflictDescribesBoth ==
    [][\A h \in Handlers :
          (apc[h] = "scanned" /\ afound[h] /\ apc'[h] = "idle") =>
              /\ Len(errorLog') = Len(errorLog) + 1
              /\ Len(errorLog'[Len(errorLog')].args) = 2
              /\ errorLog'[Len(errorLog')].args[1] = FirstMatch(workers, aarg[h])
              /\ errorLog'[Len(errorLog')].args[2] = aarg[h]]_vars

\* C28: the worker list only grows at its end: every step keeps the stored
\* workers where they are, an accepted worker becomes the last one, and a
\* rejected registration leaves the list as it was, the earlier worker it
\* collided with still stored
C28_AppendOnlyFirstWins ==
    [][/\ Len(workers') >= Len(workers)
       /\ \A i \in 1..Len(workers) : workers'[i] = workers[i]
       /\ \A h \in Handlers :
             (apc[h] = "scanned" /\ apc'[h] = "idle") =>
                 IF CollidesWith(aarg[h], workers)
                 THEN /\ workers' = workers
                      /\ \E i \in 1..Len(workers') :
                            workers'[i] = FirstMatch(workers, aarg[h])
                 ELSE workers' = Append(workers, aarg[h])]_vars

\* a second worker was accepted behind the first, and a registration that
\* collided was rejected
C28_Witness ==
    /\ Len(workers) = 2
    /\ workers[1].path = PathUsersId
    /\ workers[2].path = PathUsersBrId
    /\ Len(errorLog) = 1
    /\ \A h \in Handlers : apc[h] = "idle"

\* the calls of the two handlers, registering wa and wb, are in progress at
\* the same time
Concurrent(wa, wb) ==
    /\ apc["h1"] # "idle" /\ aarg["h1"] = wa
    /\ apc["h2"] # "idle" /\ aarg["h2"] = wb

\* C29: once two workers are being registered concurrently on the Api, then
\* whenever both calls have returned, whatever the interleaving: if the two
\* collide exactly one of them is stored and exactly one conflict is
\* recorded, and if they do not collide both are stored and no conflict is
\* recorded
C29_ConcurrentRegistration ==
    \A wa \in Workers : \A wb \in Workers :
        [](Concurrent(wa, wb) =>
              []((\A h \in Handlers : apc[h] = "idle") =>
                    IF Collide(wa, wb)
                    THEN /\ Len(workers) = 1
                         /\ workers[1] \in {wa, wb}
                         /\ errors = 1
                         /\ Len(errorLog) = 1
                    ELSE /\ Len(workers) = 2
                         /\ {workers[1], workers[2]} = {wa, wb}
                         /\ errors = 0))

\* one handler holds the lock while the other waits for it with a colliding
\* worker
C29_Witness ==
    /\ apc["h1"] = "scanned"
    /\ apc["h2"] = "called"
    /\ lock
    /\ workers = <<>>
    /\ Collide(aarg["h1"], aarg["h2"])

\* C30: a session fails with the preview-feature error only in the step in
\* which RunContainer returns, and then the service had declared a database
\* by that step and the feature is not enabled; when RunContainer returns an
\* error the session fails with that error, whatever was declared; and a
\* session whose listener could not be bound never launched its service
C30_GateAfterLaunch ==
    /\ [][\A s \in ServiceSet :
            (sret'[s].err.kind = "preview" /\ sret[s].err.kind # "preview") =>
                /\ spc[s] = "running" /\ spc'[s] = "returned"
                /\ hasDb[s] /\ hasDb'[s]
                /\ ~preview]_vars
    /\ [](\A s \in ServiceSet :
            spc[s] = "running" =>
                /\ ENABLED (SessionReturn(s, FALSE) /\ sret'[s] = RetErr(s, "run"))
                /\ ~ENABLED (SessionReturn(s, FALSE) /\ sret'[s] # RetErr(s, "run")))
    /\ [](\A s \in ServiceSet :
            sret[s].err.kind = "listen" =>
                envMode[s] = None /\ envPort[s] = NoPort /\ ~hasDb[s])

\* without the preview feature, a service declared a database and its launch
\* then returned an error, which the session returned; the session of another
\* service could not bind its listener and launched nothing
C30_Witness ==
    \E s, t \in ServiceSet :
        /\ ~preview
        /\ hasDb[s] /\ spc[s] = "returned" /\ sret[s] = RetErr(s, "run")
        /\ spc[t] = "returned" /\ sret[t].err.kind = "listen" /\ envMode[t] = None

\* the three phases of the command, in the order the claim gives
Phases == <<"BuildBaseImages", "Collect", "Up">>

\* C31: the tasks of stack update run in the order image build, requirement
\* collection, deployment, each at most once, and a task is run only when
\* every task before it returned without error: after a failed build or a
\* failed collection the provider's Up is never called
C31_PhasesInOrder ==
    /\ Len(ulog) <= Len(Phases)
    /\ \A i \in 1..Len(ulog) :
          /\ ulog[i].name = Phases[i]
          /\ \A j \in 1..(i - 1) : ulog[j].ok

\* the command has ended after the three phases ran, the deployment last
C31_Witness ==
    /\ upc = At("exited")
    /\ Len(ulog) = 3
    /\ ulog[3].name = "Up"
    /\ ulog[1].ok /\ ulog[2].ok

\* the file f is found by two of the patterns of the configuration
MatchedTwice(f) ==
    \E i, j \in 1..Len(projectConfig) :
        /\ i < j
        /\ f \in Range(projectConfig[i].files)
        /\ f \in Range(projectConfig[j].files)

\* C32: when a file is matched by two patterns fromProjectConfiguration
\* returns an error and no Project, and the services of a Project it returns
\* are those of distinct files
C32_OnePatternPerFile ==
    cfgPc = "done" =>
        /\ (\E f \in ServiceFiles : MatchedTwice(f)) =>
              cfgRet.err # Nil /\ cfgRet.project = NilProject
        /\ cfgRet.err = Nil =>
              \A i, j \in 1..Len(cfgRet.project.services) :
                  i # j => cfgRet.project.services[i].file #
                           cfgRet.project.services[j].file

\* the word characters of the alphabet, and the underscore
IsWordChar(ch) == ch \in {"u", "U", "_"}

\* C33: the name pathToNormalizedServiceName returns is lower-case and is
\* made of word characters and dashes only: no separator, no dot and no other
\* non-word character of the path is left in it
C33_OnlyWordCharsAndDashes ==
    namePc = "done" =>
        \A i \in 1..Len(nameRet) :
            /\ IsWordChar(nameRet[i]) \/ nameRet[i] = "-"
            /\ nameRet[i] # "U"

\* C34: on a project without services CollectServicesRequirements returns
\* the empty list and no error, while BuildServices returns an error
C34_EmptyProject ==
    services = <<>> =>
        /\ mpc = "returned" => cret = [reqs |-> Slice(<<>>), err |-> NilErr]
        /\ bpc = "returned" => bret = "error"

\* both functions have returned on the project without services
C34_Witness ==
    /\ services = <<>>
    /\ mpc = "returned" /\ cret.err = NilErr /\ cret.reqs.elems = <<>>
    /\ bpc = "returned" /\ bret = "error"

\* the services whose goroutine waits to deliver its terminal update
Waiting == {s \in ServiceSet : tpc[s] = "send"}

\* C35: the goroutine of a service holds its permit from the start of its
\* build until its terminal update has been received; a step that gives the
\* permit back is taken only after that; once the caller has stopped
\* receiving, a goroutine waiting to deliver stays there with its permit,
\* the channel is not closed, and while as many goroutines wait as there are
\* permits no build starts
C35_PermitHeldUntilDelivered ==
    /\ [](\A s \in ServiceSet :
            /\ tpc[s] \in {"building", "send"} => held[s] = 1
            /\ tpc[s] \in {"building", "send"} => TerminalCount(s) = 0)
    /\ [][\A s \in ServiceSet :
            held'[s] < held[s] => TerminalCount(s) = 1]_vars
    /\ []((~receiving /\ Waiting # {}) => ~closed)
    /\ [][~receiving =>
            /\ receiving' = receiving
            /\ \A s \in Waiting : tpc'[s] = "send" /\ held'[s] = 1
            /\ Cardinality(Waiting) = capMaxConcurrentBuilds =>
                  \A t \in ServiceSet : tpc[t] = "acquire" => tpc'[t] = "acquire"]_vars

\* the caller has stopped receiving; every permit is held by a goroutine
\* that waits to deliver, and another service waits for a permit
C35_Witness ==
    /\ ~receiving
    /\ Cardinality(Waiting) = capMaxConcurrentBuilds
    /\ \E t \in ServiceSet : tpc[t] = "acquire"
    /\ ~closed

\* the log writer of s has ended, its deferred logFile.Close() done, or was
\* never started
LogWriterOver(s) == lpc[s] \in {"none", "done"}

\* C36: once collectServiceRequirements has returned for a service, the log
\* writer of that session eventually terminates and closes the log file: it
\* does not stay blocked on the receive from updatesChannel (unless the
\* process has ended)
C36_LogWriterTerminates ==
    \A s \in ServiceNames :
        (spc[s] = "returned") ~> (exited \/ LogWriterOver(s))

\* a session whose goroutine was ended before it returned
CutOff(t) == exited /\ gpc[t] # "none" /\ spc[t] # "returned"

\* C37: when the log file of a session cannot be created or written, the
\* process goes on: no sibling session is ended before it has returned, and
\* CollectServicesRequirements can still return
C37_LogFailureConfined ==
    \A s \in ServiceSet :
        lpc[s] = "fatal" =>
            /\ \A t \in ServiceSet \ {s} : ~CutOff(t)
            /\ mpc # "returned" => ~exited

\* a step of AddWorker: a handler is in the call, or the worker list or the
\* errors of the parent change
AddWorkerStep ==
    \/ \E h \in Handlers : apc[h] # "idle" \/ apc'[h] # "idle"
    \/ workers' # workers
    \/ errors' # errors

\* C38: the operations of the Api touch disjoint parts of it: AddWorker leaves
\* the two security maps as they are, a step that changes the security
\* requirements (AddSecurity) leaves the workers and the security definitions
\* as they are, and a step that changes the security definitions
\* (AddSecurityDefinition) leaves the workers and the requirements as they are
C38_DisjointParts ==
    [][/\ AddWorkerStep =>
            security' = security /\ securityDefinitions' = securityDefinitions
       /\ security' # security =>
            workers' = workers /\ securityDefinitions' = securityDefinitions
       /\ securityDefinitions' # securityDefinitions =>
            workers' = workers /\ security' = security]_vars

\* each of the three operations has changed its part of the Api
C38_Witness ==
    /\ Len(workers) > 0
    /\ errors > 0
    /\ DOMAIN security # {}
    /\ DOMAIN securityDefinitions # {}

\* the services whose goroutine returned an error to the group
RunFailed == {s \in ServiceSet : rerr[s] # NilErr}

\* C39: RunServices and RunServicesWithCommand return only once the goroutine
\* of every service has returned; they return an error exactly when a service
\* failed, and then the error of the service that failed first: the group
\* takes the first error returned to it and never replaces it; and the step
\* in which one service fails leaves the other services where they are, with
\* nothing put in their stop channels
C39_WaitsForAllFirstErrorWins ==
    /\ [](rmain = "returned" =>
            /\ \A s \in ServiceSet : rpc[s] = "returned"
            /\ rret # NilErr <=> RunFailed # {}
            /\ rret = firstErr)
    /\ [](firstErr # NilErr <=> RunFailed # {})
    /\ [][\A s \in ServiceSet :
            (rerr[s] = NilErr /\ rerr'[s] # NilErr) =>
                /\ rpc'[s] = "returned"
                /\ firstErr' = IF RunFailed = {} THEN rerr'[s] ELSE firstErr
                /\ \A t \in ServiceSet \ {s} : rpc'[t] = rpc[t]
                /\ stopChannels' = stopChannels
                /\ rmain' = rmain]_vars

\* the function has returned, with the error of one of them, after two
\* services failed, one failing to register and one failing to run
C39_Witness ==
    /\ rmain = "returned"
    /\ Cardinality(RunFailed) >= 2
    /\ \E s, t \in RunFailed : rerr[s].kind = "addService" /\ rerr[t].kind = "run"
    /\ rret \in {rerr[s] : s \in RunFailed}

\* C40: BuildBaseImages takes the functions one at a time, each at most once,
\* and takes no further function once a call has returned an error, which it
\* returns at once; the project's function map changes only in the step that
\* returns nil, after every function was processed with success, so whenever
\* an error is returned the map is what it was before the call
C40_FunctionsKeptOnError ==
    /\ [](bbret # "nil" => bbpc = "returned")
    /\ [](bbret # "nil" /\ bbret # "Discover" =>
            Cardinality(DOMAIN finalFunctions) < Cardinality(visited))
    /\ [][/\ visited' # visited =>
               /\ bbret = "nil"
               /\ \E k \in DOMAIN functions \ visited : visited' = visited \cup {k}
          /\ functions' # functions =>
               /\ visited = DOMAIN functions
               /\ functions' = finalFunctions
               /\ bbret' = "nil" /\ bbpc' = "returned"
          /\ bbret' # "nil" => functions' = functions]_vars

\* an error was returned after a function was processed with success whose
\* entry in finalFunctions differs from the project's map, which is as it
\* was; another function was never taken
C40_Witness ==
    /\ bbpc = "returned"
    /\ bbret # "nil"
    /\ \E k \in DOMAIN finalFunctions :
          k \notin DOMAIN functions \/ functions[k] # finalFunctions[k]
    /\ Cardinality(visited) >= 2

=============================================================================
